---- MODULE Spec2Model ----
(***************************************************************************)
(* State-machine model of the session / tab synchronization layer          *)
(* (SessionManager, src/src/main/session.ts) and of the REST client's      *)
(* retry loop (BrowserbaseClient, src/unnamed/part_001).                   *)
(*                                                                         *)
(* The runtime is single-threaded: the code between two awaits runs        *)
(* atomically, so every action below is one such run, from the resumption  *)
(* of an await (or a call, an event, a timer) to the next await.           *)
(***************************************************************************)
EXTENDS Integers, Sequences, FiniteSets, Bags, TLC

\* ------------------------------------------------------- program constants
\* SessionManager.maxReconnectAttempts
maxReconnectAttempts == 3
\* MAX_RETRIES and RETRY_DELAY_MS of the REST client
MAX_RETRIES == 3
RETRY_DELAY_MS == 1000

\* ---------------------------------------------------------------- bounds
\* Pages a behaviour opens with newTab, on top of the ones it starts with.
MaxNew == 1
\* Pages open when a one-command-at-a-time behaviour starts: 1..InitPages.
InitPages == 2
\* Pages open when a closeTab-only behaviour starts: 1..ClosePages.
ClosePages == 3
\* Download ids the download events carry: 1..MaxDownloads.
MaxDownloads == 3
\* Auto-hide timers a behaviour of the downloads bar arms.
MaxHideTimers == 2
\* Pages open when the pass is run twice in a row: 1..SyncPages.
SyncPages == 3
\* Most calls of updateViewport.
MaxViewportCalls == 2
\* Most calls of cleanup (window-all-closed, then will-quit).
MaxCleanups == 2
\* Longest pages array of a debug response.
MaxDebugPages == 2
\* Longest address-bar input, in characters of UrlChars.
MaxUrlLen == 3
\* Remote-debugging connections a behaviour establishes.
MaxBrowsers == 3
\* Tab commands (newTab / closeTab / switchTab) in flight at once.
MaxTasks == 2
\* Passes in flight beyond which no further load / domcontentloaded /
\* framenavigated event is taken and no newTab is called. The close event of a
\* page closeTab has asked to close is always taken.
MaxPasses == 1

VARIABLES
    pages,           \* context.pages(): the open remote pages, in creation order
    nextPid,         \* identity of the next page the remote browser creates
    activeTabIndex,  \* SessionManager.activeTabIndex
    tabs,            \* SessionManager.tabs: the TabRecord sequence last emitted
    currentUrl,      \* SessionManager.currentUrl: the page whose URL it holds (0 for "")
    passes,          \* bag of the syncTabs passes page / context event handlers started
    tasks,           \* tab commands in flight (async calls not yet returned)
    out,             \* what the latest step sent to the renderer (or logged)
    \* SessionManager, connection
    session,         \* this.session is set
    isConnecting,    \* SessionManager.isConnecting
    reconnectAttempts, \* SessionManager.reconnectAttempts
    timers,          \* reconnect timers (setTimeout 2000) armed and not yet fired
    flights,         \* bag of the connectToBrowser calls past the guard, by caller and await
    listening,       \* connected browsers carrying this manager's "disconnected" listener
    opened,          \* remote-debugging connections established so far
    notified,        \* session-disconnected notifications sent so far
    viewport,        \* currentViewportWidth x currentViewportHeight, the number of
                     \* updateViewport calls, and the overrides those calls sent
    \* BrowserbaseClient
    op,              \* the client method running: "none", "createSession", "getDebugUrl"
    fpc,             \* where fetchWithRetry is: "idle", at `await fetch`, at `await sleep`
    attempt,         \* fetchWithRetry's loop variable
    seen,            \* what the network calls made so far gave, in order
    delays,          \* the delays the running fetchWithRetry has slept, in order
    lastError,       \* fetchWithRetry's lastError
    outcome,         \* what createSession gave its caller
    dbg,             \* the getDebugUrlForPage call: its pageUrl, the debug info
                     \* the API answered with, and what it returned
    cleaning,        \* SessionManager.cleanup(): where the running call is, and
                     \* what the calls so far have done
    \* DownloadsBar (renderer)
    bar              \* its downloads map, visibility, autoHideTimeout and the
                     \* auto-hide timers armed and not yet fired or cleared

tabVars == <<pages, nextPid, activeTabIndex, tabs, currentUrl, passes, tasks>>

connVars == <<session, isConnecting, reconnectAttempts, timers, flights, listening,
              opened, notified, viewport>>

clientVars == <<op, fpc, attempt, seen, delays, lastError, outcome, dbg, cleaning>>

vars == <<pages, nextPid, activeTabIndex, tabs, currentUrl, passes, tasks, out,
          session, isConnecting, reconnectAttempts, timers, flights, listening,
          opened, notified, viewport,
          op, fpc, attempt, seen, delays, lastError, outcome, dbg, cleaning, bar>>

\* ------------------------------------------------------------ helpers
Max(a, b) == IF a >= b THEN a ELSE b

RemoveAt(s, k) == SubSeq(s, 1, k - 1) \o SubSeq(s, k + 1, Len(s))

Range(s) == {s[k] : k \in 1..Len(s)}

\* Array.prototype.indexOf, zero-based, -1 when absent.
\* The index of the first element, whatever is looked for.
FirstIndex(s, x) == 0

IndexOf(s, x) ==
    IF x \in Range(s) THEN (CHOOSE k \in 1..Len(s) : s[k] = x) - 1 ELSE -1

\* pages[i] for a zero-based JavaScript index i: 0 stands for undefined.
PageAt(s, i) == IF i >= 0 /\ i < Len(s) THEN s[i + 1] ELSE 0

\* pages without page p (the page's close event removes it from the context).
Without(s, p) == SelectSeq(s, LAMBDA x : x # p)

\* A clamp that also steps back an index that is on the last page.
ClampBelowLast(a, n) == IF a >= n - 1 THEN Max(0, a - 1) ELSE a

\* syncTabs, "Ensure activeTabIndex is valid".
Clamp(a, n) == IF a >= n THEN Max(0, n - 1) ELSE a

\* A syncTabs pass: the page list it read, the records built so far, the page
\* whose framenavigated handler awaits it (0 for any other caller), and whether
\* it is the pass run again right after a pass has completed.
NoPass == [snap |-> <<>>, recs |-> <<>>, nav |-> 0, again |-> FALSE]

\* The pass after `const pages = this.context.pages()` and pages.map(...): every
\* callback is suspended at `await page.title()`.
NewPass(pgs) ==
    [snap |-> pgs, recs |-> [k \in 1..Len(pgs) |-> "pending"], nav |-> 0, again |-> FALSE]

\* The callback of index k resumes and builds its record: `active` compares the
\* index with this.activeTabIndex as it is at that moment.
ResolveRec(pass, k, a) ==
    [pass EXCEPT !.recs[k] = IF k - 1 = a THEN "T" ELSE "F"]

Pending(pass) == {k \in 1..Len(pass.recs) : pass.recs[k] = "pending"}

\* TabsOf with the records of pages that have closed since filtered out.
TabsOfOpenPages(pass) ==
    LET all == [k \in 1..Len(pass.snap) |->
                   [page |-> pass.snap[k], active |-> pass.recs[k] = "T"]]
    IN SelectSeq(all, LAMBDA r : r.page \in {pages[k] : k \in 1..Len(pages)})

\* this.tabs as assigned from the records Promise.all collected.
TabsOf(pass) ==
    [k \in 1..Len(pass.snap) |-> [page |-> pass.snap[k], active |-> pass.recs[k] = "T"]]

\* syncTabs, "Update current URL from active tab": the URL of pgs[a] when there
\* is such a page, else currentUrl as it was (cur).
SyncedUrl(pgs, a, cur) == IF PageAt(pgs, a) # 0 THEN PageAt(pgs, a) ELSE cur

\* ------------------------------------------------------------ idle parts
\* The downloads bar: downloads maps a download id to the state of its
\* DownloadInfo ("none" when the map has no such id); hidden is the bar's
\* "hidden" class; autoHideTimeout is the timer the field holds (0 for null);
\* armed are the timers set and neither fired nor cleared; made counts the
\* timers set so far and fired the times a timer's callback has run.
Bar(downloads, hidden, autoHideTimeout, armed, made, fired) ==
    [downloads |-> downloads, hidden |-> hidden, autoHideTimeout |-> autoHideTimeout,
     armed |-> armed, made |-> made, fired |-> fired]

DownloadIds == 1..MaxDownloads

NoDownloads == [d \in DownloadIds |-> "none"]

\* The bar after construction: hidden, no download, no timer.
NoBar == Bar(NoDownloads, TRUE, 0, {}, 0, 0)

\* The stored viewport (initially 1440 x 900), the number of updateViewport
\* calls so far, and the device-metrics overrides those calls have sent, in
\* order: the page, the active index when the call was made, the size.
Viewport(size, calls, sent) == [size |-> size, calls |-> calls, sent |-> sent]

NoViewport == Viewport(<<1440, 900>>, 0, <<>>)

\* The connection once connectToBrowser has finished for a created session.
Connected ==
    /\ session = TRUE
    /\ isConnecting = FALSE
    /\ reconnectAttempts = 0
    /\ timers = 0
    /\ flights = EmptyBag
    /\ listening = 1
    /\ opened = 1
    /\ notified = 0
    /\ viewport = NoViewport

\* An Error of the REST client: its message, and the HTTP statuses whose status
\* code or response body the message contains.
Err(text, mentions) == [text |-> text, mentions |-> mentions]

\* `let lastError: Error | null = null`
Null == Err("null", {})

\* How a client call ended: nothing yet, an Error thrown, or a session returned
\* with the debug URL taken from the API or built as the fallback.
Outcome(kind, error, debugUrl) == [kind |-> kind, error |-> error, debugUrl |-> debugUrl]

\* The body of GET /sessions/{id}/debug: the session's debuggerFullscreenUrl and
\* debuggerUrl ("none" for one that is absent), whether it has a pages array, and
\* that array.
DebugInfo(full, dbgUrl, hasPages, pgs) ==
    [full |-> full, dbg |-> dbgUrl, hasPages |-> hasPages, pages |-> pgs]

NoInfo == DebugInfo("none", "none", FALSE, <<>>)

\* What getDebugUrlForPage returns: the URL, the page entry it was taken from (0
\* for the session itself) and the separator put before navbar=false.
DebugUrl(url, from, sep) == [url |-> url, from |-> from, sep |-> sep]

\* getDebugUrlForPage returning null.
NullUrl == DebugUrl("null", -1, "")

\* getDebugUrlForPage not called, and called but not returned yet.
NotCalled == DebugUrl("none", -1, "")
PendingUrl == DebugUrl("pending", -1, "")

\* The getDebugUrlForPage call: the pageUrl asked for, the body of the response
\* and what the call returned.
PageDebug(pageUrl, info, result) == [pageUrl |-> pageUrl, info |-> info, result |-> result]

\* cleanup(): pc is the await the running call is suspended at ("none" before
\* the first call, "closing" for browser.close(), "stopping" for stopSession,
\* "stopped" when stopSession is back, "done" when cleanup has returned);
\* calls counts the calls, had is whether this.session was set when the call
\* started, closed whether `this.browser = null` has run, stops counts the
\* stopSession calls, stopResult and result are how stopSession and cleanup
\* ended ("returned" or "thrown"). closes counts the browser.close() calls, and
\* pc2 is the await of a second cleanup call that started while the first was
\* still running ("none", "closing", "stopping", "done").
Cleanup(pc, calls, had, closed, stops, stopResult, result, closes, pc2) ==
    [pc |-> pc, calls |-> calls, had |-> had, closed |-> closed, stops |-> stops,
     stopResult |-> stopResult, result |-> result, closes |-> closes, pc2 |-> pc2]

NoCleanup == Cleanup("none", 0, FALSE, FALSE, 0, "none", "none", 0, "none")

\* The REST client with no call running.
ClientIdle ==
    /\ op = "none"
    /\ fpc = "idle"
    /\ attempt = 0
    /\ seen = <<>>
    /\ delays = <<>>
    /\ lastError = Null
    /\ outcome = Outcome("none", Null, "none")
    /\ dbg = PageDebug("none", NoInfo, NotCalled)
    /\ cleaning = NoCleanup

\* ------------------------------------------------------------ tab commands
\* A tab command in flight. pc is the await it is suspended at:
\*   newTab:    "newPage" -> "goto" -> "sync" -> "settle"
\*   closeTab:  "closing" -> "sync" -> "settle"
\*   switchTab: "front" -> "debug" -> "sync"
\* idx is the parsed tab index, page the Page object the call holds, a0 the
\* active index when closeTab was called (kept until closeTab returns), pass
\* its own syncTabs pass. The command's promise resolves, and the command
\* surface replies {success: true} (Reply in out), when it leaves "sync"; a task at
\* "settle" is the timer the command left behind.
Task(kind, pc, idx, page, a0) ==
    [kind |-> kind, pc |-> pc, idx |-> idx, page |-> page, a0 |-> a0, pass |-> NoPass,
     input |-> <<>>, url |-> <<>>]

\* What is left of a command when its `await this.syncTabs()` returns; a is
\* this.activeTabIndex and pgs is context.pages() at that moment.
\*   newTab:   this.session is set, so the 500 ms timer is armed for newPage.
\*   closeTab: the 300 ms timer is armed for remainingPages[activeTabIndex],
\*             if there is such a page.
\*   switchTab: nothing.
AfterSync(task, pgs, a) ==
    CASE task.kind = "newTab" ->
            <<[task EXCEPT !.pc = "settle", !.pass = NoPass]>>
      [] task.kind = "closeTab" /\ PageAt(pgs, a) # 0 ->
            <<[task EXCEPT !.pc = "settle", !.page = PageAt(pgs, a), !.a0 = 0,
                           !.pass = NoPass]>>
      [] OTHER -> <<>>

\* The command surface's reply {success: true} to the command of that kind.
Reply(kind) ==
    CASE kind = "newTab" -> "newTab-ok"
      [] kind = "closeTab" -> "closeTab-ok"
      [] kind = "navigateTo" -> "navigateTo-ok"
      [] kind = "home" -> "home-ok"
      [] kind = "back" -> "back-ok"
      [] kind = "forward" -> "forward-ok"
      [] kind = "reload" -> "reload-ok"
      [] OTHER -> "switchTab-ok"

\* tasks with task t replaced by the tasks in by (none or one).
Replace(ts, t, by) == SubSeq(ts, 1, t - 1) \o by \o SubSeq(ts, t + 1, Len(ts))

\* CanClose without the last-page test.
CanCloseAnyPage(pgs, i) == PageAt(pgs, i) # 0

\* closeTab's guard: `pages[tabIndex] && pages.length > 1`.
CanClose(pgs, i) == PageAt(pgs, i) # 0 /\ Len(pgs) > 1

\* closeTab, "Adjust active tab if necessary".
AdjustActive(i, a) == IF i <= a THEN Max(0, a - 1) ELSE a

\* switchTab's guard: `pages[tabIndex]`.
CanSwitch(pgs, i) == PageAt(pgs, i) # 0

\* The tab indexes a command is called with: -1 stands for a tabId that parses to
\* NaN or to a negative index, Len(pages) for one past the last page.
TabIndices == -1..Len(pages)

\* The synchronous head of syncTabs when an event handler calls it with the
\* page list pgs: clamp the active index and suspend one title read per page.
\* With no page at all Promise.all([]) resolves at once and the empty list is
\* emitted.
EventSync(pgs) ==
    /\ activeTabIndex' = Clamp(activeTabIndex, Len(pgs))
    /\ IF Len(pgs) = 0
       THEN /\ tabs' = <<>>
            /\ passes' = passes
            /\ out' = <<"tabs">>
       ELSE /\ tabs' = tabs
            /\ passes' = passes (+) SetToBag({NewPass(pgs)})
            /\ out' = <<>>

\* A command returning without its `await this.syncTabs()`.
TaskNoSync(t, a1, pre) ==
    /\ activeTabIndex' = a1
    /\ tabs' = tabs
    /\ tasks' = Replace(tasks, t, <<>>)
    /\ out' = pre \o <<Reply(tasks[t].kind)>>

\* The same head when command t calls `await this.syncTabs()` with the active
\* index at a1; pre is what the step has already sent.
TaskSync(t, a1, pre) ==
    LET ac == Clamp(a1, Len(pages)) IN
    /\ activeTabIndex' = ac
    /\ IF Len(pages) = 0
       THEN /\ tabs' = <<>>
            /\ tasks' = Replace(tasks, t, AfterSync(tasks[t], pages, ac))
            /\ out' = pre \o <<"tabs", Reply(tasks[t].kind)>>
       ELSE /\ tabs' = tabs
            /\ tasks' = [tasks EXCEPT ![t] = [@ EXCEPT !.pc = "sync", !.pass = NewPass(pages)]]
            /\ out' = pre

\* A load or domcontentloaded event of an open page: its handler runs syncTabs.
PageEvent ==
    /\ Len(pages) > 0
    /\ BagCardinality(passes) < MaxPasses
    /\ EventSync(pages)
    /\ UNCHANGED <<pages, nextPid, tasks>>
    /\ UNCHANGED <<connVars, clientVars>>
    /\ UNCHANGED currentUrl
    /\ UNCHANGED bar

\* One title read of an event handler's pass returns (or throws, which the
\* callback catches): the record is built. When it is the last one, Promise.all
\* resolves and the pass assigns this.tabs, takes currentUrl from the page at
\* the active index and notifies the renderer; a framenavigated handler then
\* sends url-changed with the URL of its own page, which also becomes currentUrl.
PassTitleResolved ==
    \E p \in BagToSet(passes) : \E k \in Pending(p) :
        /\ LET p2 == ResolveRec(p, k, activeTabIndex) IN
           IF Pending(p2) = {}
           THEN /\ tabs' = TabsOf(p2)
                /\ currentUrl' = IF p.nav # 0 THEN p.nav
                                 ELSE SyncedUrl(p.snap, activeTabIndex, currentUrl)
                /\ passes' = passes (-) SetToBag({p})
                /\ out' = IF p.nav # 0 THEN <<"tabs", "url">> ELSE <<"tabs">>
           ELSE /\ tabs' = tabs
                /\ currentUrl' = currentUrl
                /\ passes' = (passes (-) SetToBag({p})) (+) SetToBag({p2})
                /\ out' = <<>>
        /\ UNCHANGED <<pages, nextPid, activeTabIndex, tasks>>
        /\ UNCHANGED <<connVars, clientVars>>
        /\ UNCHANGED bar

\* The same for the pass a command awaits; after the last record the command
\* goes on (AfterSync) and returns.
TaskTitleResolved ==
    \E t \in 1..Len(tasks) : \E k \in Pending(tasks[t].pass) :
        /\ tasks[t].pc = "sync"
        /\ LET p2 == ResolveRec(tasks[t].pass, k, activeTabIndex) IN
           IF Pending(p2) = {}
           THEN /\ tabs' = TabsOf(p2)
                /\ currentUrl' = SyncedUrl(p2.snap, activeTabIndex, currentUrl)
                /\ tasks' = Replace(tasks, t, AfterSync(tasks[t], pages, activeTabIndex))
                /\ out' = <<"tabs", Reply(tasks[t].kind)>>
           ELSE /\ tabs' = tabs
                /\ currentUrl' = currentUrl
                /\ tasks' = [tasks EXCEPT ![t] = [@ EXCEPT !.pass = p2]]
                /\ out' = <<>>
        /\ UNCHANGED <<pages, nextPid, activeTabIndex, passes>>
        /\ UNCHANGED <<connVars, clientVars>>
        /\ UNCHANGED bar

\* newTab(): context.newPage() is requested; the remote browser creates the page,
\* the context's "page" event adds it to context.pages() and its handler runs
\* syncTabs, all before newPage() resolves.
NewTabCall ==
    /\ Len(tasks) < MaxTasks
    /\ BagCardinality(passes) < MaxPasses
    /\ nextPid <= 1 + MaxNew
    /\ pages' = Append(pages, nextPid)
    /\ nextPid' = nextPid + 1
    /\ EventSync(pages')
    /\ tasks' = Append(tasks, Task("newTab", "newPage", 0, nextPid, 0))
    /\ UNCHANGED <<connVars, clientVars>>
    /\ UNCHANGED currentUrl
    /\ UNCHANGED bar

\* newPage() has resolved: `this.activeTabIndex = pages.indexOf(newPage)`; then the
\* viewport is applied (failures swallowed) and newPage.goto is awaited.
NewTabCreated ==
    \E t \in 1..Len(tasks) :
        /\ tasks[t].pc = "newPage"
        /\ activeTabIndex' = IndexOf(pages, tasks[t].page)
        /\ tasks' = [tasks EXCEPT ![t] = [@ EXCEPT !.pc = "goto"]]
        /\ out' = <<>>
        /\ UNCHANGED <<pages, nextPid, tabs, passes>>
        /\ UNCHANGED <<connVars, clientVars>>
        /\ UNCHANGED currentUrl
        /\ UNCHANGED bar

\* newPage.goto has resolved: newTab runs syncTabs.
NewTabLoaded ==
    \E t \in 1..Len(tasks) :
        /\ tasks[t].kind = "newTab"
        /\ tasks[t].pc = "goto"
        /\ tasks[t].page \in Range(pages)
        /\ TaskSync(t, activeTabIndex, <<>>)
        /\ UNCHANGED <<pages, nextPid, passes>>
        /\ UNCHANGED <<connVars, clientVars>>
        /\ UNCHANGED currentUrl
        /\ UNCHANGED bar

\* newPage.goto has thrown (timeout, page closed): newTab's catch logs it and
\* newTab returns normally.
NewTabFailed ==
    \E t \in 1..Len(tasks) :
        /\ tasks[t].kind = "newTab"
        /\ tasks[t].pc = "goto"
        /\ tasks' = RemoveAt(tasks, t)
        /\ out' = <<"newTab-ok">>
        /\ UNCHANGED <<pages, nextPid, activeTabIndex, tabs, passes>>
        /\ UNCHANGED <<connVars, clientVars>>
        /\ UNCHANGED currentUrl
        /\ UNCHANGED bar

\* closeTab(`tab-${i}`), up to `await pages[tabIndex].close()`; when the guard
\* fails the call returns at once.
CloseTabCall(i) ==
    /\ Len(tasks) < MaxTasks
    /\ IF CanClose(pages, i)
       THEN /\ tasks' = Append(tasks,
                   Task("closeTab", "closing", i, PageAt(pages, i), activeTabIndex))
            /\ out' = <<>>
       ELSE /\ tasks' = tasks
            /\ out' = <<"closeTab-ok">>
    /\ UNCHANGED <<pages, nextPid, activeTabIndex, tabs, passes>>
    /\ UNCHANGED <<connVars, clientVars>>
    /\ UNCHANGED currentUrl
    /\ UNCHANGED bar

\* The page a closeTab asked to close closes: it leaves context.pages() and its
\* "close" handler runs syncTabs. This happens before close() resolves.
PageClosed ==
    \E p \in Range(pages) :
        /\ \E t \in 1..Len(tasks) : tasks[t].pc = "closing" /\ tasks[t].page = p
        /\ pages' = Without(pages, p)
        /\ EventSync(pages')
        /\ UNCHANGED <<nextPid, tasks>>
        /\ UNCHANGED <<connVars, clientVars>>
        /\ UNCHANGED currentUrl
        /\ UNCHANGED bar

\* close() has resolved: closeTab adjusts the active index and runs syncTabs.
CloseTabClosed(t) ==
    /\ t \in 1..Len(tasks)
    /\ tasks[t].pc = "closing"
    /\ tasks[t].page \notin Range(pages)
    /\ TaskSync(t, AdjustActive(tasks[t].idx, activeTabIndex), <<>>)
    /\ UNCHANGED <<pages, nextPid, passes>>
    /\ UNCHANGED <<connVars, clientVars>>
    /\ UNCHANGED currentUrl
    /\ UNCHANGED bar

\* switchTab(`tab-${i}`), up to `await pages[tabIndex].bringToFront()`; when the
\* guard fails the call returns at once.
SwitchTabCall(i) ==
    /\ Len(tasks) < MaxTasks
    /\ IF CanSwitch(pages, i)
       THEN /\ tasks' = Append(tasks, Task("switchTab", "front", i, PageAt(pages, i), 0))
            /\ out' = <<>>
       ELSE /\ tasks' = tasks
            /\ out' = <<"switchTab-ok">>
    /\ UNCHANGED <<pages, nextPid, activeTabIndex, tabs, passes>>
    /\ UNCHANGED <<connVars, clientVars>>
    /\ UNCHANGED currentUrl
    /\ UNCHANGED bar

\* switchTab without `this.activeTabIndex = tabIndex`.
KeptIndex(idx, a) == a

\* `this.activeTabIndex = tabIndex`, right after bringToFront().
FrontedIndex(idx, a) == idx

\* bringToFront() has resolved: the active index is set, currentUrl is the URL of
\* pages[tabIndex], url-changed is sent with it and getDebugUrlForPage is awaited.
SwitchTabFronted ==
    \E t \in 1..Len(tasks) :
        /\ tasks[t].pc = "front"
        /\ tasks[t].page \in Range(pages)
        /\ activeTabIndex' = FrontedIndex(tasks[t].idx, activeTabIndex)
        /\ currentUrl' = tasks[t].page
        /\ tasks' = [tasks EXCEPT ![t] = [@ EXCEPT !.pc = "debug"]]
        /\ out' = <<"url">>
        /\ UNCHANGED <<pages, nextPid, tabs, passes>>
        /\ UNCHANGED <<connVars, clientVars>>
        /\ UNCHANGED bar

\* bringToFront() has thrown (the page is closed): switchTab's catch logs it and
\* switchTab returns normally.
SwitchTabFailed ==
    \E t \in 1..Len(tasks) :
        /\ tasks[t].pc = "front"
        /\ tasks[t].page \notin Range(pages)
        /\ tasks' = RemoveAt(tasks, t)
        /\ out' = <<"switchTab-ok">>
        /\ UNCHANGED <<pages, nextPid, activeTabIndex, tabs, passes>>
        /\ UNCHANGED <<connVars, clientVars>>
        /\ UNCHANGED currentUrl
        /\ UNCHANGED bar

\* getDebugUrlForPage has returned a URL (found) or null: debug-url-changed is
\* sent for a URL, then switchTab runs syncTabs.
SwitchTabDebugged ==
    \E t \in 1..Len(tasks), found \in BOOLEAN :
        /\ tasks[t].pc = "debug"
        /\ TaskSync(t, activeTabIndex, IF found THEN <<"debug">> ELSE <<>>)
        /\ UNCHANGED <<pages, nextPid, passes>>
        /\ UNCHANGED <<connVars, clientVars>>
        /\ UNCHANGED currentUrl
        /\ UNCHANGED bar

\* The settle timer of newTab (500 ms) or closeTab (300 ms) has fired and its
\* getDebugUrlForPage has returned a URL (found) or null.
Settled ==
    \E t \in 1..Len(tasks), found \in BOOLEAN :
        /\ tasks[t].pc = "settle"
        /\ tasks' = RemoveAt(tasks, t)
        /\ out' = IF found THEN <<"debug">> ELSE <<>>
        /\ UNCHANGED <<pages, nextPid, activeTabIndex, tabs, passes>>
        /\ UNCHANGED <<connVars, clientVars>>
        /\ UNCHANGED currentUrl
        /\ UNCHANGED bar

\* this.tabs after a pass over the pages pgs with the active index a.
Synced(pgs, a) == [k \in 1..Len(pgs) |-> [page |-> pgs[k], active |-> k - 1 = a]]

\* State once connectToBrowser has finished on a fresh session: one page, active,
\* synchronized.
InitTabs ==
    /\ pages = <<1>>
    /\ nextPid = 2
    /\ activeTabIndex = 0
    /\ tabs = Synced(pages, 0)
    /\ currentUrl = PageAt(pages, 0)
    /\ bar = NoBar
    /\ passes = EmptyBag
    /\ tasks = <<>>
    /\ out = <<>>
    /\ Connected
    /\ ClientIdle

\* The steps commands and passes in flight take, and page events.
TabSteps ==
    \/ PageEvent
    \/ PassTitleResolved
    \/ TaskTitleResolved
    \/ NewTabCreated
    \/ NewTabLoaded
    \/ NewTabFailed
    \/ PageClosed
    \/ \E t \in 1..Len(tasks) : CloseTabClosed(t)
    \/ SwitchTabFronted
    \/ SwitchTabDebugged
    \/ Settled

NextTabs ==
    \/ TabSteps
    \/ SwitchTabFailed
    \/ NewTabCall
    \/ \E i \in TabIndices : CloseTabCall(i)
    \/ \E i \in TabIndices : SwitchTabCall(i)

SpecTabs == InitTabs /\ [][NextTabs]_vars

\* ------------------------------------------------ one command at a time
\* Commands sent one after the other, each after the previous one is over: a
\* command is called only when none is in flight and no settle timer is pending. Page
\* events and their passes still interleave. The session starts quiescent with
\* any number of pages and any of them active.
InitSolo ==
    \E n \in 1..InitPages : \E a \in 0..(n - 1) :
        /\ pages = [k \in 1..n |-> k]
        /\ nextPid = n + 1
        /\ activeTabIndex = a
        /\ tabs = Synced(pages, a)
        /\ currentUrl = PageAt(pages, a)
        /\ bar = NoBar
        /\ passes = EmptyBag
        /\ tasks = <<>>
        /\ out = <<>>
        /\ Connected
        /\ ClientIdle

SoloCall ==
    /\ tasks = <<>>
    /\ \/ NewTabCall
       \/ \E i \in TabIndices : CloseTabCall(i)
       \/ \E i \in TabIndices : SwitchTabCall(i)

NextSolo == TabSteps \/ SoloCall

SpecSolo == InitSolo /\ [][NextSolo]_vars

\* ------------------------------------------------------- closeTab only
\* The only command is closeTab, one call at a time, on a quiescent session
\* with any number of pages and any of them active.
InitClose ==
    \E n \in 1..ClosePages : \E a \in 0..(n - 1) :
        /\ pages = [k \in 1..n |-> k]
        /\ nextPid = n + 1
        /\ activeTabIndex = a
        /\ tabs = Synced(pages, a)
        /\ currentUrl = PageAt(pages, a)
        /\ bar = NoBar
        /\ passes = EmptyBag
        /\ tasks = <<>>
        /\ out = <<>>
        /\ Connected
        /\ ClientIdle

NextClose ==
    \/ tasks = <<>> /\ \E i \in TabIndices : CloseTabCall(i)
    \/ PageClosed
    \/ \E t \in 1..Len(tasks) : CloseTabClosed(t)
    \/ PageEvent
    \/ PassTitleResolved
    \/ TaskTitleResolved
    \/ Settled

SpecClose == InitClose /\ [][NextClose]_vars

\* --------------------------------------------------- rapid switchTab
\* switchTab(tab-0) and then switchTab(tab-1), sent without awaiting the first,
\* on a quiescent two-page session: each call has run to its
\* `await pages[tabIndex].bringToFront()`. No other command follows.
InitRapid ==
    \E a \in 0..1 :
        /\ pages = <<1, 2>>
        /\ nextPid = 3
        /\ activeTabIndex = a
        /\ tabs = Synced(pages, a)
        /\ currentUrl = PageAt(pages, a)
        /\ bar = NoBar
        /\ passes = EmptyBag
        /\ tasks = <<Task("switchTab", "front", 0, PageAt(pages, 0), 0),
                     Task("switchTab", "front", 1, PageAt(pages, 1), 0)>>
        /\ out = <<>>
        /\ Connected
        /\ ClientIdle

NextRapid ==
    \/ SwitchTabFronted
    \/ SwitchTabDebugged
    \/ TaskTitleResolved
    \/ PageEvent
    \/ PassTitleResolved

SpecRapid == InitRapid /\ [][NextRapid]_vars

\* ------------------------------------------- newTab on a one-page session
\* newTab() is called once on the freshly connected session, which has one
\* page; page events and their passes interleave with it.
NextNewTab ==
    \/ tasks = <<>> /\ Len(pages) = 1 /\ NewTabCall
    \/ NewTabCreated
    \/ NewTabLoaded
    \/ NewTabFailed
    \/ TaskTitleResolved
    \/ PageEvent
    \/ PassTitleResolved
    \/ Settled

SpecNewTab == InitTabs /\ [][NextNewTab]_vars

\* ------------------------------------------------------------ navigation
\* Address-bar text is a sequence over UrlChars. Each element stands for the
\* characters it spells; the multi-character ones are prefixes the code or the
\* URL syntax treats as a unit, "TAB" is the tab character.
UrlChars == {"http://", "https://", "about:", "a", ".", " ", "TAB"}

RECURSIVE SeqsUpTo(_, _)
SeqsUpTo(S, n) ==
    IF n = 0 THEN {<<>>}
    ELSE LET shorter == SeqsUpTo(S, n - 1)
         IN shorter \cup {Append(q, c) : q \in {x \in shorter : Len(x) = n - 1}, c \in S}

Urls == SeqsUpTo(UrlChars, MaxUrlLen)

\* String.prototype.startsWith for one of the prefixes of UrlChars.
StartsWith(url, prefix) == url # <<>> /\ url[1] = prefix

\* String.prototype.includes for a single character.
Includes(url, c) == \E k \in 1..Len(url) : url[k] = c

\* encodeURIComponent, character by character: letters and "." are kept, the
\* others are percent-encoded.
EncodeChar(c) ==
    CASE c = " " -> "%20"
      [] c = "TAB" -> "%09"
      [] c = "about:" -> "about%3A"
      [] c = "http://" -> "http%3A%2F%2F"
      [] c = "https://" -> "https%3A%2F%2F"
      [] OTHER -> c

EncodeURIComponent(url) == [k \in 1..Len(url) |-> EncodeChar(url[k])]

\* navigateTo, "Ensure URL has protocol": the URL handed to activePage.goto.
Normalize(url) ==
    IF ~StartsWith(url, "http://") /\ ~StartsWith(url, "https://")
    THEN IF Includes(url, ".") /\ ~Includes(url, " ")
         THEN <<"https://">> \o url
         ELSE <<"https://www.google.com/search?q=">> \o EncodeURIComponent(url)
    ELSE url

\* BROWSERBASE_DEFAULT_URL || "https://www.google.com"
HomeUrl == <<"https://", "a", ".", "a">>

\* this.browser and this.context are set.
HasBrowser == opened > 0

\* getActivePage() taking the first page, whatever the active index.
FirstPage == PageAt(pages, 0)

\* getActivePage(): pages[activeTabIndex] || pages[0] || null (0 for null).
ActivePage ==
    IF PageAt(pages, activeTabIndex) # 0 THEN PageAt(pages, activeTabIndex)
    ELSE PageAt(pages, 0)

\* The reply when the method the handler awaits throws: "exception" stands for
\* the rejection reaching the renderer.
HandleNoCatch(kind, threw) == IF threw THEN "exception" ELSE Reply(kind)

\* A request handler of the command surface: try { await method; return
\* {success: true} } catch { return {success: false, error} }.
Handle(kind, threw) ==
    IF threw
    THEN CASE kind = "navigateTo" -> "navigateTo-failed"
           [] kind = "home" -> "home-failed"
           [] OTHER -> "failed"
    ELSE Reply(kind)

\* NAVIGATE_TO (kind "navigateTo", the text typed) or NAVIGATE_HOME (kind
\* "home", the default URL): navigateTo up to `await activePage.goto(url)`.
\* Without a browser it throws; without a page it returns at once.
NavigateCall(kind, input) ==
    /\ Len(tasks) < MaxTasks
    /\ IF ~HasBrowser
       THEN /\ tasks' = tasks
            /\ out' = <<Handle(kind, TRUE)>>
       ELSE IF ActivePage = 0
       THEN /\ tasks' = tasks
            /\ out' = <<Handle(kind, FALSE)>>
       ELSE /\ tasks' = Append(tasks,
                   [Task(kind, "goto", 0, ActivePage, activeTabIndex) EXCEPT
                       !.input = input, !.url = Normalize(input)])
            /\ out' = <<>>
    /\ UNCHANGED <<pages, nextPid, activeTabIndex, tabs, passes>>
    /\ UNCHANGED <<connVars, clientVars>>
    /\ UNCHANGED currentUrl
    /\ UNCHANGED bar

NavigateToCall == \E input \in Urls : NavigateCall("navigateTo", input)

NavigateHomeCall == NavigateCall("home", HomeUrl)

\* activePage.goto has resolved: currentUrl is set and navigateTo runs syncTabs.
NavigateLoaded ==
    \E t \in 1..Len(tasks) :
        /\ tasks[t].kind \in {"navigateTo", "home"}
        /\ tasks[t].pc = "goto"
        /\ tasks[t].page \in Range(pages)
        /\ currentUrl' = tasks[t].page
        /\ TaskSync(t, activeTabIndex, <<>>)
        /\ UNCHANGED <<pages, nextPid, passes>>
        /\ UNCHANGED <<connVars, clientVars>>
        /\ UNCHANGED bar

\* activePage.goto has thrown (timeout, DNS failure, page closed): navigateTo
\* rethrows and the handler replies {success: false, error}.
NavigateFailed ==
    \E t \in 1..Len(tasks) :
        /\ tasks[t].kind \in {"navigateTo", "home"}
        /\ tasks[t].pc = "goto"
        /\ tasks' = RemoveAt(tasks, t)
        /\ out' = <<Handle(tasks[t].kind, TRUE)>>
        /\ UNCHANGED <<pages, nextPid, activeTabIndex, tabs, passes>>
        /\ UNCHANGED <<connVars, clientVars>>
        /\ UNCHANGED currentUrl
        /\ UNCHANGED bar

HistoryKinds == {"back", "forward", "reload"}

\* NAVIGATE_BACK / NAVIGATE_FORWARD / NAVIGATE_RELOAD: goBack / goForward /
\* reload up to the await of the page's operation; without an active page the
\* method returns at once.
HistoryCall(kind) ==
    /\ Len(tasks) < MaxTasks
    /\ IF ActivePage = 0
       THEN /\ tasks' = tasks
            /\ out' = <<Handle(kind, FALSE)>>
       ELSE /\ tasks' = Append(tasks, Task(kind, "history", 0, ActivePage, 0))
            /\ out' = <<>>
    /\ UNCHANGED <<pages, nextPid, activeTabIndex, tabs, passes>>
    /\ UNCHANGED <<connVars, clientVars>>
    /\ UNCHANGED currentUrl
    /\ UNCHANGED bar

\* The page's goBack / goForward / reload has resolved: the method runs syncTabs.
HistoryDone ==
    \E t \in 1..Len(tasks) :
        /\ tasks[t].pc = "history"
        /\ tasks[t].page \in Range(pages)
        /\ TaskSync(t, activeTabIndex, <<>>)
        /\ UNCHANGED <<pages, nextPid, passes>>
        /\ UNCHANGED <<connVars, clientVars>>
        /\ UNCHANGED currentUrl
        /\ UNCHANGED bar

\* The page's operation has thrown: the method's catch logs it and the method
\* returns normally.
HistoryFailed ==
    \E t \in 1..Len(tasks) :
        /\ tasks[t].pc = "history"
        /\ tasks' = RemoveAt(tasks, t)
        /\ out' = <<Handle(tasks[t].kind, FALSE)>>
        /\ UNCHANGED <<pages, nextPid, activeTabIndex, tabs, passes>>
        /\ UNCHANGED <<connVars, clientVars>>
        /\ UNCHANGED currentUrl
        /\ UNCHANGED bar


\* ------------------------------------------------------------ connection
\* connectToBrowser's single-flight guard: `if (this.isConnecting) return`.
NeverSkips(flag) == FALSE

Skips(flag) == flag

\* The main window is destroyed: cleanup is called by window-all-closed and
\* will-quit, when every window has been closed, and the notify* methods send
\* nothing to a destroyed window.
WindowDestroyed == cleaning.calls > 0

\* handleDisconnect(): schedule a reconnect while attempts remain, otherwise
\* send session-disconnected. fired is 1 when the caller is the callback of a
\* reconnect timer that has just fired, which is no longer pending.
HandleDisconnect(fired) ==
    IF reconnectAttempts < maxReconnectAttempts
    THEN /\ reconnectAttempts' = reconnectAttempts + 1
         /\ timers' = timers - fired + 1
         /\ notified' = notified
         /\ out' = <<>>
    ELSE /\ reconnectAttempts' = reconnectAttempts
         /\ timers' = timers - fired
         /\ notified' = IF WindowDestroyed THEN notified ELSE notified + 1
         /\ out' = IF WindowDestroyed THEN <<>> ELSE <<"session-disconnected">>

\* A connectToBrowser call past the guard, suspended at
\*   "cdp":      await chromium.connectOverCDP
\*   "newPage":  await this.context.newPage() (the context had no page)
\*   "pages":    await newCDPSession (no listener yet)
\*   "sync":     await this.syncTabs(), the initial pass
\*   "navigate": await navigateTo / applyViewportToAllPages
Flight(caller, pc) == [caller |-> caller, pc |-> pc]

Move(f, pc) == (flights (-) SetToBag({f})) (+) SetToBag({Flight(f.caller, pc)})

\* initialize(): the session has been created and connectToBrowser is called.
Initialize ==
    /\ ~session
    /\ session' = TRUE
    /\ isConnecting' = TRUE
    /\ flights' = flights (+) SetToBag({Flight("init", "cdp")})
    /\ out' = <<>>
    /\ UNCHANGED <<reconnectAttempts, timers, listening, opened, notified>>
    /\ UNCHANGED <<tabVars, clientVars>>
    /\ UNCHANGED viewport
    /\ UNCHANGED bar

\* A reconnect timer fires and calls connectToBrowser. Without a session the
\* call throws "No session available" and the callback's catch calls
\* handleDisconnect. While a connect is in flight the call returns at once
\* ("Already connecting, skipping..."); the timer callback takes that for a
\* success and resets the attempt counter.
ReconnectTimer ==
    /\ timers > 0
    /\ IF ~session
       THEN /\ HandleDisconnect(1)
            /\ UNCHANGED <<isConnecting, flights>>
       ELSE IF Skips(isConnecting)
       THEN /\ timers' = timers - 1
            /\ reconnectAttempts' = 0
            /\ out' = <<"skipped">>
            /\ UNCHANGED <<isConnecting, flights, notified>>
       ELSE /\ timers' = timers - 1
            /\ isConnecting' = TRUE
            /\ flights' = flights (+) SetToBag({Flight("reconnect", "cdp")})
            /\ out' = <<>>
            /\ UNCHANGED <<reconnectAttempts, notified>>
    /\ UNCHANGED <<session, listening, opened>>
    /\ UNCHANGED <<tabVars, clientVars>>
    /\ UNCHANGED viewport
    /\ UNCHANGED bar

\* `if (pages.length === 0)` without the test.
NeverNeedsPage(pgs) == FALSE

\* `if (pages.length === 0) await this.context.newPage()`
NeedsPage(pgs) == Len(pgs) = 0

\* The pages a remote session's default context can hold when the client
\* connects: none, or the page the remote browser started with (page 1; the
\* pages this client creates are numbered from 2).
ContextPages == {<<>>, <<1>>}

\* connectOverCDP has resolved: this.browser is the new connection (also when
\* cleanup had set it to null) and this.context its default context; with no
\* page in it newPage() is awaited.
CdpConnected ==
    \E f \in BagToSet(flights), pgs \in ContextPages :
        /\ f.pc = "cdp"
        /\ opened < MaxBrowsers
        /\ opened' = opened + 1
        /\ pages' = pgs
        /\ nextPid' = 2
        /\ flights' = Move(f, IF NeedsPage(pgs) THEN "newPage" ELSE "pages")
        /\ out' = <<>>
        /\ cleaning' = [cleaning EXCEPT !.closed = FALSE]
        /\ UNCHANGED <<session, isConnecting, reconnectAttempts, timers, listening, notified>>
        /\ UNCHANGED <<activeTabIndex, tabs, passes, tasks>>
        /\ UNCHANGED <<op, fpc, attempt, seen, delays, lastError, outcome, dbg>>
        /\ UNCHANGED viewport
        /\ UNCHANGED currentUrl
        /\ UNCHANGED bar

\* context.newPage() has resolved: the context has one page. No "page"
\* listener is attached yet, so nothing else runs.
PageCreated ==
    \E f \in BagToSet(flights) :
        /\ f.pc = "newPage"
        /\ pages' = Append(pages, nextPid)
        /\ nextPid' = nextPid + 1
        /\ flights' = Move(f, "pages")
        /\ out' = <<>>
        /\ UNCHANGED <<session, isConnecting, reconnectAttempts, timers, listening, opened,
                       notified>>
        /\ UNCHANGED <<activeTabIndex, tabs, passes, tasks, clientVars>>
        /\ UNCHANGED viewport
        /\ UNCHANGED currentUrl
        /\ UNCHANGED bar

\* newCDPSession has resolved or thrown (caught) and setupEventListeners has
\* run: the new browser carries a "disconnected" listener. The initial syncTabs
\* starts: it clamps the active index and reads the titles.
ListenersAttached ==
    \E f \in BagToSet(flights) :
        /\ f.pc = "pages"
        /\ listening' = listening + 1
        /\ flights' = Move(f, "sync")
        /\ activeTabIndex' = Clamp(activeTabIndex, Len(pages))
        /\ out' = <<>>
        /\ UNCHANGED <<session, isConnecting, reconnectAttempts, timers, opened, notified>>
        /\ UNCHANGED <<pages, nextPid, tabs, passes, tasks, clientVars>>
        /\ UNCHANGED viewport
        /\ UNCHANGED currentUrl
        /\ UNCHANGED bar

\* The titles of the initial pass are read: this.tabs is assigned and sent, and
\* navigateTo(defaultUrl) is awaited.
InitialSynced ==
    \E f \in BagToSet(flights) :
        /\ f.pc = "sync"
        /\ flights' = Move(f, "navigate")
        /\ tabs' = Synced(pages, activeTabIndex)
        /\ currentUrl' = SyncedUrl(pages, activeTabIndex, currentUrl)
        /\ out' = <<"tabs">>
        /\ UNCHANGED <<session, isConnecting, reconnectAttempts, timers, listening, opened,
                       notified>>
        /\ UNCHANGED <<pages, nextPid, activeTabIndex, passes, tasks, clientVars>>
        /\ UNCHANGED viewport
        /\ UNCHANGED bar

\* connectToBrowser returning while its initial syncTabs is still awaited.
ReturnsFromSync == "sync"

\* The last awaits of connectToBrowser: navigateTo(defaultUrl), then
\* applyViewportToAllPages.
ReturnsFrom == "navigate"

\* connectToBrowser returns normally: `finally` clears isConnecting; a reconnect
\* timer's callback resets the attempt counter; initialize() returns the session
\* and the did-finish-load handler sends session-created.
ConnectDone ==
    \E f \in BagToSet(flights) :
        /\ f.pc = ReturnsFrom
        /\ flights' = flights (-) SetToBag({f})
        /\ isConnecting' = FALSE
        /\ reconnectAttempts' = IF f.caller = "reconnect" THEN 0 ELSE reconnectAttempts
        /\ tabs' = Synced(pages, activeTabIndex)
        /\ currentUrl' = SyncedUrl(pages, activeTabIndex, ActivePage)
        /\ out' = IF f.caller = "init" THEN <<"tabs", "session-created">> ELSE <<"tabs">>
        /\ UNCHANGED <<session, timers, listening, opened, notified>>
        /\ UNCHANGED <<pages, nextPid, activeTabIndex, passes, tasks, clientVars>>
        /\ UNCHANGED viewport
        /\ UNCHANGED bar

\* connectToBrowser throws at any of its awaits (connect refused or timed out,
\* newPage failed, navigation failed): `finally` clears isConnecting; a reconnect
\* timer's callback calls handleDisconnect; the catch of initialize() sends
\* session-error (notifyError) and rethrows, and the catch of the
\* did-finish-load handler sends session-error for the same Error.
ConnectFailed ==
    \E f \in BagToSet(flights) :
        /\ flights' = flights (-) SetToBag({f})
        /\ isConnecting' = FALSE
        /\ IF f.caller = "reconnect"
           THEN HandleDisconnect(0)
           ELSE /\ out' = <<"session-error", "session-error">>
                /\ UNCHANGED <<reconnectAttempts, timers, notified>>
        /\ UNCHANGED <<session, listening, opened>>
        /\ UNCHANGED <<tabVars, clientVars>>
        /\ UNCHANGED viewport
        /\ UNCHANGED bar

\* A connected browser emits "disconnected": its listener calls handleDisconnect.
BrowserDisconnected ==
    /\ listening > 0
    /\ listening' = listening - 1
    /\ HandleDisconnect(0)
    /\ UNCHANGED <<session, isConnecting, flights, opened>>
    /\ UNCHANGED <<tabVars, clientVars>>
    /\ UNCHANGED viewport
    /\ UNCHANGED bar

\* State after construction: no session, nothing connected.
InitConn ==
    /\ session = FALSE
    /\ isConnecting = FALSE
    /\ reconnectAttempts = 0
    /\ timers = 0
    /\ flights = EmptyBag
    /\ listening = 0
    /\ opened = 0
    /\ notified = 0
    /\ viewport = NoViewport
    /\ pages = <<>>
    /\ nextPid = 1
    /\ activeTabIndex = 0
    /\ tabs = <<>>
    /\ currentUrl = 0
    /\ bar = NoBar
    /\ passes = EmptyBag
    /\ tasks = <<>>
    /\ out = <<>>
    /\ ClientIdle

NextConn ==
    \/ Initialize
    \/ ReconnectTimer
    \/ CdpConnected
    \/ PageCreated
    \/ ListenersAttached
    \/ InitialSynced
    \/ ConnectDone
    \/ ConnectFailed
    \/ BrowserDisconnected

SpecConn == InitConn /\ [][NextConn]_vars

\* Navigation commands sent one after the other on a one-page session, and
\* before any browser is connected.
InitNav == InitTabs \/ InitConn

NextNav ==
    \/ tasks = <<>> /\ NavigateToCall
    \/ tasks = <<>> /\ NavigateHomeCall
    \/ tasks = <<>> /\ \E kind \in HistoryKinds : HistoryCall(kind)
    \/ NavigateLoaded
    \/ NavigateFailed
    \/ HistoryDone
    \/ HistoryFailed
    \/ TaskTitleResolved
    \/ PageEvent
    \/ PassTitleResolved

SpecNav == InitNav /\ [][NextNav]_vars

\* ------------------------------------------------------------ viewport
\* The content sizes the window is resized to.
Sizes == {<<800, 600>>, <<1440, 900>>}

\* updateViewport(width, height), called by the debounced resize handler: the
\* size is stored; with an active page applyViewportToPage is awaited for it.
UpdateViewportCall ==
    \E size \in Sizes :
        /\ viewport.calls < MaxViewportCalls
        /\ Len(tasks) < MaxTasks
        /\ viewport' = [viewport EXCEPT !.size = size, !.calls = @ + 1]
        /\ IF ActivePage = 0
           THEN tasks' = tasks
           ELSE tasks' = Append(tasks,
                    [Task("viewport", "cdp", 0, ActivePage, activeTabIndex) EXCEPT
                        !.input = size])
        /\ out' = <<>>
        /\ UNCHANGED <<pages, nextPid, activeTabIndex, tabs, passes>>
        /\ UNCHANGED <<session, isConnecting, reconnectAttempts, timers, flights, listening,
                       opened, notified>>
        /\ UNCHANGED clientVars
        /\ UNCHANGED currentUrl
        /\ UNCHANGED bar

\* newCDPSession and Emulation.setDeviceMetricsOverride have resolved for the
\* page the call took: that page has the override.
ViewportApplied ==
    \E t \in 1..Len(tasks) :
        /\ tasks[t].kind = "viewport"
        /\ tasks[t].page \in Range(pages)
        /\ viewport' = [viewport EXCEPT !.sent =
               Append(@, [page |-> tasks[t].page, a0 |-> tasks[t].a0,
                          size |-> tasks[t].input])]
        /\ tasks' = RemoveAt(tasks, t)
        /\ out' = <<>>
        /\ UNCHANGED <<pages, nextPid, activeTabIndex, tabs, passes>>
        /\ UNCHANGED <<session, isConnecting, reconnectAttempts, timers, flights, listening,
                       opened, notified>>
        /\ UNCHANGED clientVars
        /\ UNCHANGED currentUrl
        /\ UNCHANGED bar

\* One of the two has thrown: applyViewportToPage's catch logs it.
ViewportFailed ==
    \E t \in 1..Len(tasks) :
        /\ tasks[t].kind = "viewport"
        /\ tasks' = RemoveAt(tasks, t)
        /\ out' = <<>>
        /\ UNCHANGED <<pages, nextPid, activeTabIndex, tabs, passes>>
        /\ UNCHANGED <<connVars, clientVars>>
        /\ UNCHANGED currentUrl
        /\ UNCHANGED bar

\* Resizes of the window before a browser is connected and on a quiescent
\* session, with switchTab calls, one at a time, changing the active tab in
\* between.
InitViewport == InitSolo \/ InitConn

NoSwitchRunning == \A t \in 1..Len(tasks) : tasks[t].kind = "viewport"

NextViewport ==
    \/ UpdateViewportCall
    \/ ViewportApplied
    \/ ViewportFailed
    \/ HasBrowser /\ NoSwitchRunning /\ \E i \in TabIndices : SwitchTabCall(i)
    \/ SwitchTabFronted
    \/ SwitchTabDebugged
    \/ TaskTitleResolved

SpecViewport == InitViewport /\ [][NextViewport]_vars

\* ------------------------------------------------------ command surface
\* The texts NAVIGATE_TO is sent with here: a search term and a full URL.
SurfaceUrls == {<<"a">>, <<"https://", "a">>}

\* The eight request handlers of the command surface, one request at a time,
\* before any browser is connected and on a connected one-page session; each
\* awaited remote operation resolves or throws (bringToFront throws only on a
\* closed page, which takes a concurrent closeTab: that step is in NextTabs).
NextSurface ==
    \/ tasks = <<>> /\ \E input \in SurfaceUrls : NavigateCall("navigateTo", input)
    \/ tasks = <<>> /\ NavigateHomeCall
    \/ tasks = <<>> /\ \E kind \in HistoryKinds : HistoryCall(kind)
    \/ tasks = <<>> /\ HasBrowser /\ NewTabCall
    \/ tasks = <<>> /\ HasBrowser /\ \E i \in TabIndices : CloseTabCall(i)
    \/ tasks = <<>> /\ HasBrowser /\ \E i \in TabIndices : SwitchTabCall(i)
    \/ NavigateLoaded
    \/ NavigateFailed
    \/ HistoryDone
    \/ HistoryFailed
    \/ NewTabCreated
    \/ NewTabLoaded
    \/ NewTabFailed
    \/ PageClosed
    \/ \E t \in 1..Len(tasks) : CloseTabClosed(t)
    \/ SwitchTabFronted
    \/ SwitchTabDebugged
    \/ TaskTitleResolved
    \/ PassTitleResolved
    \/ Settled

SpecSurface == InitNav /\ [][NextSurface]_vars

\* ------------------------------------------------------------ REST client
\* What one fetch() can produce: a response with one of these statuses, or a
\* rejection (no response), written NoResponse.
NoResponse == 0

Statuses == {200, 304, 401, 403, 404, 429, 500, 503}

\* A factor growing by one per attempt instead of doubling.
Linear(n) == n + 1

\* Math.pow(2, attempt)
RECURSIVE Pow2(_)
Pow2(n) == IF n = 0 THEN 1 ELSE 2 * Pow2(n - 1)

\* response.ok
Ok(status) == status >= 200 /\ status < 300

\* Returned for a loop that hands back only ok responses.
ReturnedOnlyOk(status) == status >= 200 /\ status < 300

\* fetchWithRetry returns the response at once: a 4xx other than 429, an ok
\* response, and (last line of the loop body) anything that is not 429 or 5xx.
Returned(status) ==
    \/ status >= 400 /\ status < 500 /\ status # 429
    \/ Ok(status)
    \/ ~(status = 429 \/ status >= 500)

\* The loop condition of fetchWithRetry with one extra round.
LoopContinuesInclusive(a, retries) == a <= retries

\* The loop condition of fetchWithRetry: `attempt < retries`.
LoopContinues(a, retries) == a < retries

\* The Error createSession throws for a response that is not ok.
CreateError(status) ==
    IF status = 401 THEN Err("Authentication failed. Please check your BROWSERBASE_API_KEY.", {})
    ELSE IF status = 403 THEN Err("Access denied. Please check your BROWSERBASE_PROJECT_ID and API key permissions.", {})
    ELSE IF status = 429 THEN Err("Rate limit exceeded. Please try again later.", {})
    ELSE Err("Failed to create Browserbase session: <body>", {status})

\* The generic Error, whatever the attempts threw.
ExhaustedGeneric(last) == Err("Request failed after retries", {})

\* `throw lastError || new Error("Request failed after retries")`
Exhausted(last) == IF last # Null THEN last ELSE Err("Request failed after retries", {})

\* createSession is called: its POST goes through fetchWithRetry.
CreateSessionCall ==
    /\ op = "none"
    /\ outcome.kind = "none"
    /\ op' = "createSession"
    /\ fpc' = "fetch"
    /\ attempt' = 0
    /\ lastError' = Null
    /\ UNCHANGED <<seen, delays, outcome, dbg, cleaning>>
    /\ out' = <<>>
    /\ UNCHANGED <<tabVars, connVars>>
    /\ UNCHANGED bar

\* fetchWithRetry has a response for createSession: not ok, createSession
\* throws; ok, it goes on to getDebugUrl, which starts its own fetchWithRetry.
CreateResponded(status) ==
    IF Ok(status)
    THEN /\ op' = "getDebugUrl"
         /\ fpc' = "fetch"
         /\ attempt' = 0
         /\ lastError' = Null
         /\ delays' = <<>>
         /\ UNCHANGED <<outcome, dbg, cleaning>>
    ELSE /\ op' = "none"
         /\ fpc' = "idle"
         /\ outcome' = Outcome("thrown", CreateError(status), "none")
         /\ UNCHANGED <<attempt, lastError, delays, dbg, cleaning>>

\* fetchWithRetry has a response for getDebugUrl: createSession returns the
\* session, with the fallback URL when the response is not ok.
DebugResponded(status) ==
    /\ op' = "none"
    /\ fpc' = "idle"
    /\ outcome' = Outcome("returned", Null, IF Ok(status) THEN "api" ELSE "fallback")
    /\ UNCHANGED <<attempt, lastError, delays, dbg, cleaning>>

\* The debug responses: each page entry has its url and, present or not, a
\* debuggerFullscreenUrl (one with a query string) and a debuggerUrl.
PageEntries == [url : {"u", "v"}, full : {"none", "full?x"}, dbg : {"none", "dbg"}]

DebugInfos ==
    {DebugInfo(f, d, TRUE, p) : f \in {"none", "full?x"}, d \in {"none", "dbg"},
                                p \in SeqsUpTo(PageEntries, MaxDebugPages)}
    \cup {DebugInfo(f, d, FALSE, <<>>) : f \in {"none", "full?x"}, d \in {"none", "dbg"}}

\* `url.includes('?') ? `${url}&navbar=false` : `${url}?navbar=false``
Separator(url) == IF url = "full?x" THEN "&" ELSE "?"

\* `a || b` on two optional strings.
OrElse(a, b) == IF a # "none" THEN a ELSE b

\* getDebugUrlForPage on an ok response: the first page whose url equals pageUrl,
\* if it has a debug URL; else the session's debuggerFullscreenUrl; else null.
PageDebugUrl(info, pageUrl) ==
    LET pgs == IF info.hasPages THEN info.pages ELSE <<>>
        hits == {k \in 1..Len(pgs) : pgs[k].url = pageUrl}
        first == IF hits = {} THEN 0 ELSE CHOOSE k \in hits : \A j \in hits : k <= j
        url == IF first = 0 THEN "none" ELSE OrElse(pgs[first].full, pgs[first].dbg)
    IN IF url # "none" THEN DebugUrl(url, first, Separator(url))
       ELSE IF info.full # "none" THEN DebugUrl(info.full, 0, Separator(info.full))
       ELSE NullUrl

\* getDebugUrlForPage(sessionId, pageUrl) is called: its GET goes through
\* fetchWithRetry.
GetDebugUrlForPageCall ==
    \E pageUrl \in {"u", "v"} :
        /\ op = "none"
        /\ dbg.pageUrl = "none"
        /\ op' = "getDebugUrlForPage"
        /\ fpc' = "fetch"
        /\ attempt' = 0
        /\ lastError' = Null
        /\ dbg' = PageDebug(pageUrl, NoInfo, PendingUrl)
        /\ UNCHANGED <<seen, delays, outcome, cleaning>>
        /\ out' = <<>>
        /\ UNCHANGED <<tabVars, connVars>>
        /\ UNCHANGED bar

\* fetchWithRetry has a response for getDebugUrlForPage: not ok, it returns null;
\* ok, the body is read and the URL picked.
PageDebugResponded(status) ==
    /\ op' = "none"
    /\ fpc' = "idle"
    /\ IF Ok(status)
       THEN \E info \in DebugInfos :
                dbg' = PageDebug(dbg.pageUrl, info, PageDebugUrl(info, dbg.pageUrl))
       ELSE dbg' = PageDebug(dbg.pageUrl, NoInfo, NullUrl)
    /\ UNCHANGED <<attempt, lastError, delays, outcome, cleaning>>

\* stopSession's catch block without the catch: the error goes on to the caller.
StopRethrows(threw) == IF threw THEN "thrown" ELSE "returned"

\* How stopSession ends: its whole body is in try/catch and the catch only logs.
StopEnds(threw) == "returned"

\* fetchWithRetry has a response for stopSession: ok or not (logged), stopSession
\* returns.
StopResponded(status) ==
    /\ op' = "none"
    /\ fpc' = "idle"
    /\ cleaning' = [cleaning EXCEPT !.pc = "stopped", !.stopResult = StopEnds(FALSE)]
    /\ UNCHANGED <<attempt, lastError, delays, outcome, dbg>>

\* getDebugUrl's catch block without the catch: the error goes on to the caller.
DebugRethrown(error) == Outcome("thrown", error, "none")

\* getDebugUrl's catch block: the error is logged and the fallback URL, built
\* from the API key and the session id, is returned.
DebugCaught(error) == Outcome("returned", Null, "fallback")

\* fetchWithRetry throws: createSession lets the Error through; getDebugUrl
\* catches it and returns the fallback URL, so createSession returns;
\* getDebugUrlForPage catches it and returns null; stopSession catches and
\* logs it.
FetchThrown(error) ==
    /\ op' = "none"
    /\ fpc' = "idle"
    /\ outcome' = CASE op = "createSession" -> Outcome("thrown", error, "none")
                    [] op = "getDebugUrl" -> DebugCaught(error)
                    [] OTHER -> outcome
    /\ dbg' = IF op = "getDebugUrlForPage"
              THEN PageDebug(dbg.pageUrl, NoInfo, NullUrl)
              ELSE dbg
    /\ cleaning' = IF op = "stopSession"
                   THEN [cleaning EXCEPT !.pc = "stopped", !.stopResult = StopEnds(TRUE)]
                   ELSE cleaning
    /\ UNCHANGED <<attempt, lastError>>

\* `await fetch` resolves with a response.
FetchResponded ==
    \E status \in Statuses :
        /\ fpc = "fetch"
        /\ seen' = Append(seen, status)
        /\ IF Returned(status)
           THEN CASE op = "createSession" -> CreateResponded(status)
                  [] op = "getDebugUrl" -> DebugResponded(status)
                  [] op = "stopSession" -> StopResponded(status)
                  [] OTHER -> PageDebugResponded(status)
           ELSE /\ delays' = Append(delays, RETRY_DELAY_MS * Pow2(attempt))
                /\ fpc' = "sleep"
                /\ UNCHANGED <<op, attempt, lastError, outcome, dbg, cleaning>>
        /\ out' = <<>>
        /\ UNCHANGED <<tabVars, connVars>>
        /\ UNCHANGED bar

\* `await fetch` rejects: the catch block records the Error and sleeps.
FetchRejected ==
    /\ fpc = "fetch"
    /\ seen' = Append(seen, NoResponse)
    /\ lastError' = Err("fetch failed", {})
    /\ delays' = Append(delays, RETRY_DELAY_MS * Pow2(attempt))
    /\ fpc' = "sleep"
    /\ UNCHANGED <<op, attempt, outcome, dbg, cleaning>>
    /\ out' = <<>>
    /\ UNCHANGED <<tabVars, connVars>>
    /\ UNCHANGED bar

\* The sleep ends: attempt++ and the loop condition; past the loop,
\* fetchWithRetry throws.
SleepDone ==
    /\ fpc = "sleep"
    /\ IF LoopContinues(attempt + 1, MAX_RETRIES)
       THEN /\ attempt' = attempt + 1
            /\ fpc' = "fetch"
            /\ UNCHANGED <<op, lastError, outcome, dbg, cleaning>>
       ELSE FetchThrown(Exhausted(lastError))
    /\ UNCHANGED <<seen, delays>>
    /\ out' = <<>>
    /\ UNCHANGED <<tabVars, connVars>>
    /\ UNCHANGED bar

\* State after construction, before the session is created.
InitFetch == InitConn

NextFetch ==
    \/ CreateSessionCall
    \/ FetchResponded
    \/ FetchRejected
    \/ SleepDone

SpecFetch == InitFetch /\ [][NextFetch]_vars

\* getDebugUrlForPage called on a connected session.
NextPageDebug ==
    \/ GetDebugUrlForPageCall
    \/ FetchResponded
    \/ FetchRejected
    \/ SleepDone

SpecPageDebug == InitTabs /\ [][NextPageDebug]_vars

\* ------------------------------------------------------------- cleanup
\* this.browser is set: a browser was connected and cleanup has not nulled it.
BrowserSet == HasBrowser /\ ~cleaning.closed

\* cleanup goes on after the browser part: with a session it calls stopSession,
\* whose POST goes through fetchWithRetry; without one it returns.
AfterBrowser(c) ==
    IF session
    THEN /\ op' = "stopSession"
         /\ fpc' = "fetch"
         /\ attempt' = 0
         /\ lastError' = Null
         /\ delays' = <<>>
         /\ cleaning' = [c EXCEPT !.pc = "stopping", !.stops = @ + 1, !.stopResult = "none"]
         /\ UNCHANGED <<seen, outcome, dbg>>
    ELSE /\ cleaning' = [c EXCEPT !.pc = "done", !.result = "returned"]
         /\ UNCHANGED <<op, fpc, attempt, seen, delays, lastError, outcome, dbg>>

\* window-all-closed or will-quit calls sessionManager.cleanup(): with a browser
\* it awaits browser.close().
CleanupCall ==
    /\ cleaning.pc \in {"none", "done"}
    /\ cleaning.calls < MaxCleanups
    /\ op = "none"
    /\ LET c == [cleaning EXCEPT !.calls = @ + 1, !.had = session, !.result = "none"] IN
       IF BrowserSet
       THEN /\ cleaning' = [c EXCEPT !.pc = "closing", !.closes = @ + 1]
            /\ UNCHANGED <<op, fpc, attempt, seen, delays, lastError, outcome, dbg>>
       ELSE AfterBrowser(c)
    /\ out' = <<>>
    /\ UNCHANGED <<tabVars, connVars>>
    /\ UNCHANGED bar

\* browser.close() has resolved: `this.browser = null`, then the session part.
BrowserClosed ==
    /\ cleaning.pc = "closing"
    /\ AfterBrowser([cleaning EXCEPT !.closed = TRUE])
    /\ out' = <<>>
    /\ UNCHANGED <<tabVars, connVars>>
    /\ UNCHANGED bar

\* browser.close() has thrown: cleanup's catch logs "Cleanup failed" and cleanup
\* returns.
BrowserCloseFailed ==
    /\ cleaning.pc = "closing"
    /\ cleaning' = [cleaning EXCEPT !.pc = "done", !.result = "returned"]
    /\ UNCHANGED <<op, fpc, attempt, seen, delays, lastError, outcome, dbg>>
    /\ out' = <<>>
    /\ UNCHANGED <<tabVars, connVars>>
    /\ UNCHANGED bar

\* stopSession is back: returned, `this.session = null`; thrown, cleanup's catch
\* logs it. Either way cleanup returns.
CleanupStopped ==
    /\ cleaning.pc = "stopped"
    /\ session' = (cleaning.stopResult = "thrown" /\ session)
    /\ cleaning' = [cleaning EXCEPT !.pc = "done", !.result = "returned"]
    /\ UNCHANGED <<op, fpc, attempt, seen, delays, lastError, outcome, dbg>>
    /\ out' = <<>>
    /\ UNCHANGED <<isConnecting, reconnectAttempts, timers, flights, listening, opened,
                   notified>>
    /\ UNCHANGED tabVars
    /\ UNCHANGED viewport
    /\ UNCHANGED bar

\* The states the application can shut down in: nothing created, a session
\* created whose browser never connected, a connected session.
InitCleanup ==
    \/ InitConn
    \/ InitTabs
    \/ /\ session = TRUE
       /\ isConnecting = FALSE
       /\ reconnectAttempts = 0
       /\ timers = 0
       /\ flights = EmptyBag
       /\ listening = 0
       /\ opened = 0
       /\ notified = 0
       /\ viewport = NoViewport
       /\ pages = <<>>
       /\ nextPid = 1
       /\ activeTabIndex = 0
       /\ tabs = <<>>
       /\ currentUrl = 0
       /\ bar = NoBar
       /\ passes = EmptyBag
       /\ tasks = <<>>
       /\ out = <<>>
       /\ ClientIdle

NextCleanup ==
    \/ CleanupCall
    \/ BrowserClosed
    \/ BrowserCloseFailed
    \/ CleanupStopped
    \/ FetchResponded
    \/ FetchRejected
    \/ SleepDone

SpecCleanup == InitCleanup /\ [][NextCleanup]_vars

\* ------------------------------------------------- overlapping cleanups
\* The second cleanup goes on after its browser part: with a session it calls
\* stopSession, else it returns.
AgainAfterBrowser(c) ==
    IF session
    THEN cleaning' = [c EXCEPT !.pc2 = "stopping", !.stops = @ + 1]
    ELSE cleaning' = [c EXCEPT !.pc2 = "done"]

\* will-quit calls cleanup() while the call made by window-all-closed is still
\* awaiting browser.close() or stopSession: this.browser and this.session are
\* whatever the first call has made of them so far.
CleanupCallAgain ==
    /\ cleaning.pc \in {"closing", "stopping", "stopped"}
    /\ cleaning.pc2 = "none"
    /\ cleaning.calls < MaxCleanups
    /\ LET c == [cleaning EXCEPT !.calls = @ + 1] IN
       IF BrowserSet
       THEN cleaning' = [c EXCEPT !.pc2 = "closing", !.closes = @ + 1]
       ELSE AgainAfterBrowser(c)
    /\ out' = <<>>
    /\ UNCHANGED <<op, fpc, attempt, seen, delays, lastError, outcome, dbg>>
    /\ UNCHANGED <<tabVars, connVars>>
    /\ UNCHANGED bar

\* The second call's browser.close() has resolved: `this.browser = null`, then
\* the session part.
AgainBrowserClosed ==
    /\ cleaning.pc2 = "closing"
    /\ AgainAfterBrowser([cleaning EXCEPT !.closed = TRUE])
    /\ out' = <<>>
    /\ UNCHANGED <<op, fpc, attempt, seen, delays, lastError, outcome, dbg>>
    /\ UNCHANGED <<tabVars, connVars>>
    /\ UNCHANGED bar

\* The second call's browser.close() has thrown: its catch logs and it returns.
AgainBrowserCloseFailed ==
    /\ cleaning.pc2 = "closing"
    /\ cleaning' = [cleaning EXCEPT !.pc2 = "done"]
    /\ out' = <<>>
    /\ UNCHANGED <<op, fpc, attempt, seen, delays, lastError, outcome, dbg>>
    /\ UNCHANGED <<tabVars, connVars>>
    /\ UNCHANGED bar

\* The second call's stopSession has returned (it ends as StopEnds says, whatever
\* its own fetchWithRetry did): `this.session = null`, and the call returns.
AgainStopped ==
    /\ cleaning.pc2 = "stopping"
    /\ session' = (StopEnds(FALSE) = "thrown" /\ session)
    /\ cleaning' = [cleaning EXCEPT !.pc2 = "done"]
    /\ out' = <<>>
    /\ UNCHANGED <<op, fpc, attempt, seen, delays, lastError, outcome, dbg>>
    /\ UNCHANGED <<isConnecting, reconnectAttempts, timers, flights, listening, opened,
                   notified, viewport>>
    /\ UNCHANGED tabVars
    /\ UNCHANGED bar

\* Shutdown with both handlers: cleanup calls one after the other and
\* overlapping.
NextQuit ==
    \/ CleanupCall
    \/ CleanupCallAgain
    \/ BrowserClosed
    \/ BrowserCloseFailed
    \/ CleanupStopped
    \/ AgainBrowserClosed
    \/ AgainBrowserCloseFailed
    \/ AgainStopped
    \/ FetchResponded
    \/ FetchRejected
    \/ SleepDone

SpecQuit == InitCleanup /\ [][NextQuit]_vars

\* ------------------------------------------------------------ shutdown
\* The application shuts down a connected session: cleanup is called once.
\* browser.close() makes the browser emit "disconnected" before it resolves, so
\* the listener runs handleDisconnect first; reconnect timers and the connects
\* they start run next to the rest of cleanup.
NextShutdown ==
    \/ cleaning.calls = 0 /\ CleanupCall
    \/ cleaning.pc = "closing" /\ BrowserDisconnected
    \/ listening = 0 /\ BrowserClosed
    \/ BrowserCloseFailed
    \/ CleanupStopped
    \/ FetchResponded
    \/ FetchRejected
    \/ SleepDone
    \/ ReconnectTimer
    \/ CdpConnected
    \/ PageCreated
    \/ ListenersAttached
    \/ InitialSynced
    \/ ConnectDone
    \/ ConnectFailed

SpecShutdown == InitTabs /\ [][NextShutdown]_vars

\* ------------------------------------------------------- downloads bar
\* DownloadInfo.state as the main process sends it.
DownloadStates == {"in_progress", "completed", "cancelled", "interrupted"}

\* `every((d) => d.state === "completed" || d.state === "cancelled")` over the
\* downloads in the map.
AllComplete(downloads) ==
    \A d \in DownloadIds : downloads[d] \in {"none", "completed", "cancelled"}

\* `if (this.autoHideTimeout) { clearTimeout(...); this.autoHideTimeout = null }`:
\* the timers still armed afterwards.
ClearAutoHide(b) == b.armed \ {b.autoHideTimeout}

\* hide(): the bar gets the class "hidden", the map is cleared and the timer
\* autoHideTimeout holds is cleared; t is the timer whose callback is running
\* (0 when hide was called by the close button or removeDownload).
Hide(b, t) ==
    Bar(NoDownloads, TRUE, 0, ClearAutoHide(b) \ {t}, b.made,
        IF t # 0 THEN b.fired + 1 ELSE b.fired)

\* Every step of the bar runs in the renderer and leaves the main process alone.
BarOnly == /\ out' = <<>>
           /\ UNCHANGED <<tabVars, connVars, clientVars>>

\* download-started for download d: addDownload.
AddDownload(d) ==
    /\ bar' = Bar([bar.downloads EXCEPT ![d] = "in_progress"], FALSE, 0,
                  ClearAutoHide(bar), bar.made, bar.fired)
    /\ BarOnly

\* download-progress for download d in state st: updateDownload.
UpdateDownload(d, st) ==
    /\ bar' = [bar EXCEPT !.downloads[d] = st]
    /\ BarOnly

\* download-completed for download d: completeDownload stores it as completed
\* and, when every download is complete, assigns a new timer to autoHideTimeout.
CompleteDownload(d) ==
    LET downloads == [bar.downloads EXCEPT ![d] = "completed"] IN
    /\ IF AllComplete(downloads)
       THEN /\ bar.made < MaxHideTimers
            /\ bar' = Bar(downloads, bar.hidden, bar.made + 1,
                          bar.armed \cup {bar.made + 1}, bar.made + 1, bar.fired)
       ELSE bar' = [bar EXCEPT !.downloads = downloads]
    /\ BarOnly

\* The close button of a rendered download: removeDownload.
RemoveDownload(d) ==
    /\ bar.downloads[d] # "none"
    /\ LET downloads == [bar.downloads EXCEPT ![d] = "none"] IN
       bar' = IF downloads = NoDownloads
              THEN Hide(bar, 0)
              ELSE [bar EXCEPT !.downloads = downloads]
    /\ BarOnly

\* The close button of the bar: hide().
CloseClicked ==
    /\ ~bar.hidden
    /\ bar' = Hide(bar, 0)
    /\ BarOnly

\* An armed auto-hide timer fires, 5000 ms after it was set: hide().
AutoHideFired ==
    \E t \in bar.armed :
        /\ bar' = Hide(bar, t)
        /\ BarOnly

NextDownloads ==
    \/ \E d \in DownloadIds : AddDownload(d)
    \/ \E d \in DownloadIds, st \in DownloadStates \ {"completed"} : UpdateDownload(d, st)
    \/ \E d \in DownloadIds : CompleteDownload(d)
    \/ \E d \in DownloadIds : RemoveDownload(d)
    \/ CloseClicked
    \/ AutoHideFired

SpecDownloads == InitConn /\ [][NextDownloads]_vars

\* ------------------------------------------------------- url-changed
\* A framenavigated event of the main frame of an open page p: its handler
\* awaits syncTabs and then calls notifyUrlChanged(page.url()) for its own page
\* (the last step of its pass, PassTitleResolved).
FrameNavigated ==
    \E p \in Range(pages) :
        /\ BagCardinality(passes) < MaxPasses
        /\ activeTabIndex' = Clamp(activeTabIndex, Len(pages))
        /\ passes' = passes (+) SetToBag({[NewPass(pages) EXCEPT !.nav = p]})
        /\ out' = <<>>
        /\ UNCHANGED <<pages, nextPid, tabs, currentUrl, tasks>>
        /\ UNCHANGED <<connVars, clientVars>>
        /\ UNCHANGED bar

\* Main-frame navigations of the open pages, and switchTab calls one at a time,
\* on a session at rest.
NextUrl ==
    \/ FrameNavigated
    \/ PassTitleResolved
    \/ tasks = <<>> /\ \E i \in TabIndices : SwitchTabCall(i)
    \/ SwitchTabFronted
    \/ SwitchTabDebugged
    \/ TaskTitleResolved

SpecUrl == InitSolo /\ [][NextUrl]_vars

\* ---------------------------------------------------- the pass run twice
\* An event handler calls syncTabs right after a pass has completed (the step
\* before sent the tab list), with no command in flight: the pass runs again on
\* the same pages and the same active index.
SyncAgain ==
    /\ out = <<"tabs">>
    /\ passes = EmptyBag
    /\ tasks = <<>>
    /\ Len(pages) > 0
    /\ activeTabIndex' = Clamp(activeTabIndex, Len(pages))
    /\ passes' = passes (+) SetToBag({[NewPass(pages) EXCEPT !.again = TRUE]})
    /\ out' = <<>>
    /\ UNCHANGED <<pages, nextPid, tabs, currentUrl, tasks>>
    /\ UNCHANGED <<connVars, clientVars>>
    /\ UNCHANGED bar

\* The states a pass can start in: a context with n pages, while the active
\* index, the tab list and currentUrl are those of a list of m pages with page b
\* active. m = n is the session at rest; m # n is the session right after a
\* reconnect, whose context need not have the pages the previous one had, so
\* that the index can point past the last page.
InitSync ==
    \E n \in 1..SyncPages, m \in 1..SyncPages : \E b \in 0..(m - 1) :
        /\ pages = [k \in 1..n |-> k]
        /\ nextPid = n + 1
        /\ activeTabIndex = b
        /\ tabs = Synced([k \in 1..m |-> k], b)
        /\ currentUrl = b + 1
        /\ bar = NoBar
        /\ passes = EmptyBag
        /\ tasks = <<>>
        /\ out = <<>>
        /\ Connected
        /\ ClientIdle

\* Passes one after the other, nothing else.
NextSync ==
    \/ passes = EmptyBag /\ PageEvent
    \/ SyncAgain
    \/ PassTitleResolved

SpecSync == InitSync /\ [][NextSync]_vars

\* ================================================================ claims
ActiveCount(ts) == Cardinality({k \in 1..Len(ts) : ts[k].active})

\* The passes in flight: the event handlers' and the commands'.
InFlight ==
    BagToSet(passes) \cup {tasks[t].pass : t \in {u \in 1..Len(tasks) : tasks[u].pc = "sync"}}

\* C1: a non-empty TabRecord sequence emitted by a synchronization pass has
\* exactly one record with active = true, whatever a newTab, closeTab or
\* switchTab does to the active index while the pass awaits the page titles.
C1_ExactlyOneActive ==
    ("tabs" \in Range(out) /\ tabs # <<>>) => ActiveCount(tabs) = 1

\* C2 as claimed: the sequence a pass emits has as many records as there are
\* pages open at the moment it is emitted.
C2_LengthIsOpenPages ==
    "tabs" \in Range(out) => Len(tabs) = Len(pages)

\* C2 as amended: the sequence a pass emits has one record for each page that
\* was open when the pass read the page list, in that order; pages opened or
\* closed while it awaited the titles do not change it.
C2_LengthIsSnapshot ==
    [][ "tabs" \in Range(out') =>
          \/ \E p \in InFlight :
                /\ Cardinality(Pending(p)) = 1
                /\ Len(tabs') = Len(p.snap)
                /\ \A k \in 1..Len(p.snap) : tabs'[k].page = p.snap[k]
          \/ Len(pages') = 0 /\ tabs' = <<>> ]_vars

\* C2, the case: a sequence has just been emitted while the number of open
\* pages differs from the number of its records.
C2_Witness ==
    "tabs" \in Range(out) /\ Len(tabs) # Len(pages)

\* C3: closeTab never closes the last page: with closeTab the only way a page
\* closes, at least one page is open at all times.
C3_NeverZeroPages == Len(pages) >= 1

\* C4: a closeTab call made when exactly one page is open, or with a tabId that
\* resolves to no open page, closes no page (it leaves no close pending), leaves
\* the active index alone and sends neither a tab list nor a debug URL.
C4_CloseTabNoOp ==
    [][ \A i \in TabIndices :
          (CloseTabCall(i) /\ (Len(pages) = 1 \/ PageAt(pages, i) = 0)) =>
              /\ UNCHANGED <<pages, nextPid, activeTabIndex, tabs, passes, tasks>>
              /\ "tabs" \notin Range(out')
              /\ "debug" \notin Range(out') ]_vars

\* C4, the case: closeTab has just returned at once with a single page open.
C4_Witness ==
    out = <<"closeTab-ok">> /\ Len(pages) = 1 /\ tasks = <<>>

\* The active index the claim C5 expects after closing index i with a active.
ExpectedActive(i, a) == IF i <= a THEN Max(0, a - 1) ELSE a

\* C5: when a closeTab that closed the page at index i returns, the active index
\* is max(0, a - 1) if i <= a and a otherwise, a being the active index at the
\* call (no other command runs in between).
C5_ActiveAfterClose ==
    [][ ( /\ Len(tasks) = 1
          /\ tasks[1].kind = "closeTab"
          /\ tasks[1].pc = "sync"
          /\ "closeTab-ok" \in Range(out') ) =>
        activeTabIndex' = ExpectedActive(tasks[1].idx, tasks[1].a0) ]_vars

\* C6: once both rapid switchTab calls and every pass have finished, the active
\* index is 1 and the tab list last emitted has tab-1 active (whatever it says
\* of tab-0).
C6_LastIssuedWins ==
    (tasks = <<>> /\ passes = EmptyBag) => (activeTabIndex = 1 /\ tabs[2].active)

\* C7: the session-disconnected notification is sent at most once, whatever
\* disconnect events arrive after automatic reconnection has given up.
C7_NotifiedAtMostOnce == notified <= 1

\* C8: at most one connectToBrowser call is past its guard at any time, so at
\* most one connectOverCDP is in flight; and a connectToBrowser call made while
\* one is in flight returns at once: it starts no connect and leaves the flag,
\* the session, the connections opened and their listeners as they were.
C8_SingleFlight ==
    /\ [](BagCardinality(flights) <= 1)
    /\ [][(ReconnectTimer /\ isConnecting) =>
            UNCHANGED <<session, isConnecting, flights, listening, opened, notified, tabVars>>]_vars

\* C8, the case: a reconnect timer has just called connectToBrowser while a
\* connect was in flight, and the call was skipped.
C8_Witness == out = <<"skipped">> /\ isConnecting /\ BagCardinality(flights) = 1

Sustained503 == seen # <<>> /\ \A k \in 1..Len(seen) : seen[k] = 503

\* C9: while every response is a 503, createSession makes no more than
\* MAX_RETRIES network calls and returns no session; when it ends it has made
\* exactly MAX_RETRIES calls and has thrown.
C9_ThreeCallsThenThrows ==
    Sustained503 =>
        /\ Len(seen) <= MAX_RETRIES
        /\ outcome.kind # "returned"
        /\ (op = "none" => Len(seen) = MAX_RETRIES /\ outcome.kind = "thrown")

\* C9, the case: createSession has ended after nothing but 503 responses.
C9_Witness == Sustained503 /\ op = "none" /\ outcome.kind = "thrown"

\* C10: the Error createSession throws after nothing but 503 responses contains
\* the status or the body of the last response.
C10_ErrorHasStatusContext ==
    (Sustained503 /\ outcome.kind = "thrown") => seen[Len(seen)] \in outcome.error.mentions

\* The status of the last response, when the last network call gave one.
LastStatus == IF seen = <<>> THEN NoResponse ELSE seen[Len(seen)]

\* C11: the Error createSession throws after a non-2xx response carries the
\* message of that status: the authentication message for 401, the access
\* message for 403, the rate-limit message for 429, and for any other status the
\* generic message with the response body.
C11_StatusMapsToMessage ==
    (outcome.kind = "thrown" /\ LastStatus # NoResponse) =>
        /\ LastStatus = 401 =>
             outcome.error.text = "Authentication failed. Please check your BROWSERBASE_API_KEY."
        /\ LastStatus = 403 =>
             outcome.error.text = "Access denied. Please check your BROWSERBASE_PROJECT_ID and API key permissions."
        /\ LastStatus = 429 =>
             outcome.error.text = "Rate limit exceeded. Please try again later."
        /\ LastStatus \notin {401, 403, 429} =>
             /\ outcome.error.text = "Failed to create Browserbase session: <body>"
             /\ LastStatus \in outcome.error.mentions

NeverRetried(status) == status >= 400 /\ status < 500 /\ status # 429

\* C12: a 4xx response other than 429 is the last network call of the
\* fetchWithRetry that received it, and the client call ends on it: createSession
\* throws the Error built from that response, getDebugUrl falls back on it. As
\* the first response of createSession it leaves exactly one network call made.
C12_ClientErrorNotRetried ==
    \A k \in 1..Len(seen) :
        NeverRetried(seen[k]) =>
            /\ k = Len(seen)
            /\ op = "none"
            /\ fpc = "idle"
            /\ \/ outcome = Outcome("thrown", CreateError(seen[k]), "none")
               \/ outcome = Outcome("returned", Null, "fallback")

\* C12, the case: createSession received a 404 on its first call and has thrown.
C12_Witness == seen = <<404>> /\ op = "none" /\ outcome.kind = "thrown"

\* C13: the delays a fetchWithRetry sleeps are 1000, 2000 and 4000 ms in that
\* order: the delay after failure number k is RETRY_DELAY_MS * 2^k, each the
\* double of the one before.
C13_DelaysDouble ==
    /\ Len(delays) <= 3
    /\ delays = SubSeq(<<1000, 2000, 4000>>, 1, Len(delays))
    /\ \A k \in 1..Len(delays) - 1 : delays[k + 1] = 2 * delays[k] /\ delays[k + 1] >= delays[k]

\* C13, the case: a fetchWithRetry has slept after three failed responses.
C13_Witness ==
    /\ Len(delays) = 3
    /\ Len(seen) >= 3
    /\ \A k \in (Len(seen) - 2)..Len(seen) : seen[k] = 429 \/ seen[k] >= 500

\* The input begins with a URL scheme.
HasScheme(url) == url # <<>> /\ url[1] \in {"http://", "https://", "about:"}

\* Whitespace: the space and the tab character.
HasWhitespace(url) == \E k \in 1..Len(url) : url[k] \in {" ", "TAB"}

\* C14: the URL navigateTo hands to the active page for an input that begins
\* with a URL scheme (http://, https://, about:) is the input itself.
C14_SchemeKept ==
    \A t \in 1..Len(tasks) :
        (tasks[t].kind = "navigateTo" /\ HasScheme(tasks[t].input)) =>
            tasks[t].url = tasks[t].input

\* C15: for an input without a scheme, the URL navigateTo hands to the active
\* page is "https://" + input when the input has a "." and no whitespace, and
\* otherwise the search URL whose q parameter is the encoded input.
C15_SchemelessCases ==
    \A t \in 1..Len(tasks) :
        (tasks[t].kind = "navigateTo" /\ ~HasScheme(tasks[t].input)) =>
            IF Includes(tasks[t].input, ".") /\ ~HasWhitespace(tasks[t].input)
            THEN tasks[t].url = <<"https://">> \o tasks[t].input
            ELSE tasks[t].url = <<"https://www.google.com/search?q=">>
                                    \o EncodeURIComponent(tasks[t].input)

\* The pages of the response whose reported url equals the pageUrl asked for.
Matches == {k \in 1..Len(dbg.info.pages) : dbg.info.pages[k].url = dbg.pageUrl}

\* Those of them that carry a live-view URL of their own.
Usable == {k \in Matches : dbg.info.pages[k].full # "none" \/ dbg.info.pages[k].dbg # "none"}

\* The session-level URL, as getDebugUrl takes it from the same response.
SessionUrl == OrElse(dbg.info.full, dbg.info.dbg)

\* C16: on an ok debug response getDebugUrlForPage returns the live-view URL of a
\* page whose url equals pageUrl when there is one, the session-level URL when
\* no page matches, and null only when no matching page has a URL and the
\* session has none.
C16_PageUrlOrSessionUrl ==
    (dbg.result \notin {NotCalled, PendingUrl} /\ seen # <<>> /\ Ok(LastStatus)) =>
        /\ Usable # {} =>
             /\ dbg.result.from \in Usable
             /\ dbg.result.url \in {dbg.info.pages[dbg.result.from].full,
                                    dbg.info.pages[dbg.result.from].dbg}
        /\ (Matches = {} /\ SessionUrl # "none") =>
             /\ dbg.result.from = 0
             /\ dbg.result.url = SessionUrl
        /\ dbg.result = NullUrl => (Usable = {} /\ SessionUrl = "none")

\* The step in which newTab's own syncTabs finishes: the command leaves "sync".
NewTabSynced ==
    /\ tasks # <<>> /\ tasks[1].kind = "newTab" /\ tasks[1].pc = "sync"
    /\ tasks' # <<>> /\ tasks'[1].pc = "settle"

\* C17: newTab on a session with exactly one page emits, when its
\* synchronization finishes, a tab list of exactly two records: the original
\* page's with active false, then the new page's with active true.
C17_NewTabEmitsTwoWithNewActive ==
    [][NewTabSynced =>
          /\ tabs' = <<[page |-> 1, active |-> FALSE], [page |-> 2, active |-> TRUE]>>
          /\ out' = <<"tabs", "newTab-ok">>]_vars

C17_Witness ==
    /\ tasks # <<>> /\ tasks[1].kind = "newTab" /\ tasks[1].pc = "settle"
    /\ out = <<"tabs", "newTab-ok">>
    /\ tabs = <<[page |-> 1, active |-> FALSE], [page |-> 2, active |-> TRUE]>>

\* The connectToBrowser call of initialize() is past its initial syncTabs.
InitialSyncDone == \E f \in BagToSet(flights) : f.caller = "init" /\ f.pc = "navigate"

\* C18: once the initial connection's first synchronization has reported, the
\* tab list has exactly one record, for the context's page, with active true;
\* also when the context had no page and one was created first.
C18_InitialSyncOneActiveTab ==
    InitialSyncDone =>
        /\ Len(tabs) = 1
        /\ Len(pages) = 1
        /\ tabs[1] = [page |-> pages[1], active |-> TRUE]

\* The initial synchronization has reported on a context that had no page: the
\* one record is for the page connectToBrowser created.
C18_Witness ==
    /\ InitialSyncDone
    /\ out = <<"tabs">>
    /\ tabs = <<[page |-> 2, active |-> TRUE]>>

\* The {success: true} replies and the {success: false, error} replies of the
\* request handlers.
SuccessReplies ==
    {"navigateTo-ok", "home-ok", "back-ok", "forward-ok", "reload-ok",
     "newTab-ok", "closeTab-ok", "switchTab-ok"}

FailureReplies == {"navigateTo-failed", "home-failed", "failed"}

\* What the session manager sends the renderer on its own: tabs-updated,
\* url-changed, debug-url-changed.
Notifications == {"tabs", "url", "debug"}

\* C19: whatever the awaited SessionManager method does, a request handler's
\* promise resolves to {success: true} or {success: false, error}; a rejection
\* never reaches the renderer.
C19_HandlersNeverReject ==
    \A k \in 1..Len(out) :
        out[k] \in SuccessReplies \cup FailureReplies \cup Notifications

\* navigateTo has thrown (no browser, or goto failed) and the handler has
\* replied {success: false, error}.
C19_Witness == out = <<"navigateTo-failed">> /\ HasBrowser

\* The remote operation a direct user command awaits has failed: goto of
\* navigateTo or of newTab, bringToFront of switchTab.
RemoteFailed == NavigateFailed \/ NewTabFailed \/ SwitchTabFailed

\* C20: when the remote operation of navigate, new tab, close tab or switch
\* tab fails, the command's reply is {success: false, error}, never
\* {success: true}.
C20_FailurePropagates ==
    [][RemoteFailed => (out' # <<>> /\ \A k \in 1..Len(out') : out'[k] \in FailureReplies)]_vars

\* C21: a cleanup call that found a session has called stopSession for it by
\* the time it returns, also when browser.close() failed first.
C21_CleanupStopsSession ==
    (cleaning.pc = "done" /\ cleaning.had) => cleaning.stops > 0

\* C22: stopSession and cleanup never end by throwing, whatever the stop
\* request and browser.close() do.
C22_CleanupNeverThrows ==
    /\ cleaning.stopResult # "thrown"
    /\ cleaning.result # "thrown"

\* The stop request got three 503 answers, fetchWithRetry threw, and cleanup
\* has returned all the same.
C22_Witness ==
    /\ cleaning.pc = "done"
    /\ cleaning.result = "returned"
    /\ cleaning.stopResult = "returned"
    /\ Len(seen) >= 3
    /\ \A k \in 1..Len(seen) : seen[k] = 503

\* createSession's own request got an ok response, so getDebugUrl was called:
\* the responses after the first ok one are getDebugUrl's.
DebugUrlCalled == \E k \in 1..Len(seen) : Ok(seen[k])

\* C23: getDebugUrl never throws to createSession, and when its request ends
\* without an ok response (a non-2xx response, retries exhausted, fetch
\* rejecting every time) it returns the fallback URL.
C23_DebugUrlFallsBack ==
    DebugUrlCalled =>
        /\ outcome.kind # "thrown"
        /\ op = "none" =>
             /\ outcome.kind = "returned"
             /\ ~Ok(LastStatus) => outcome.debugUrl = "fallback"

\* getDebugUrl's fetch rejected on every attempt and createSession has returned
\* the session with the fallback URL.
C23_Witness ==
    /\ op = "none"
    /\ Len(seen) = 1 + MAX_RETRIES
    /\ Ok(seen[1])
    /\ \A k \in 2..Len(seen) : seen[k] = NoResponse
    /\ outcome = Outcome("returned", Null, "fallback")

\* C24: every override an updateViewport call sends goes to the page that was
\* at the active index when the call was made; the calls send at most one
\* override each; and after one call the stored size is the size that call was
\* given, which is also the size it sends.
C24_ViewportActivePageOnly ==
    /\ \A k \in 1..Len(viewport.sent) :
          /\ viewport.sent[k].page = PageAt(pages, viewport.sent[k].a0)
          /\ viewport.sent[k].size \in Sizes
    /\ Len(viewport.sent) <= viewport.calls
    /\ viewport.calls = 1 =>
          /\ \A t \in 1..Len(tasks) : tasks[t].kind = "viewport" => tasks[t].input = viewport.size
          /\ \A k \in 1..Len(viewport.sent) : viewport.sent[k].size = viewport.size

\* A resize to 800 x 600 while the second of two tabs is active: that page, and
\* no other, has the override.
C24_Witness ==
    /\ Len(pages) = 2
    /\ viewport.calls = 1
    /\ viewport.size = <<800, 600>>
    /\ viewport.sent = <<[page |-> 2, a0 |-> 1, size |-> <<800, 600>>]>>

NavKinds == {"navigateTo", "home"}

\* C25: navigateTo works on the page at the active index and on no other; its
\* {success: true} comes with the tab list of the pass it ran after the
\* navigation; when the navigation fails the reply is {success: false} alone:
\* no pass is started, no tab list sent.
C25_NavigateActiveThenSync ==
    [][/\ \A t \in 1..Len(tasks') :
            tasks'[t].kind \in NavKinds => tasks'[t].page = PageAt(pages', tasks'[t].a0)
       /\ \A r \in {"navigateTo-ok", "home-ok"} :
            r \in Range(out') => (out' = <<"tabs", r>> \/ pages = <<>>)
       /\ \A r \in {"navigateTo-failed", "home-failed"} :
            r \in Range(out') =>
                /\ out' = <<r>>
                /\ tabs' = tabs
                /\ passes' = passes
                /\ \A t \in 1..Len(tasks') : tasks'[t].pc # "sync"]_vars

\* navigateTo on a two-tab session whose second tab is active has navigated and
\* run its pass.
C25_Witness ==
    /\ Len(pages) = 2
    /\ activeTabIndex = 1
    /\ out = <<"tabs", "navigateTo-ok">>

\* No command is in flight, no settle timer is pending and every
\* synchronization pass has completed.
Quiescent == tasks = <<>> /\ passes = EmptyBag

\* C26: once every command and every synchronization pass has completed, the
\* tab list last emitted has one record per open page, in the order of the
\* pages, whatever the order the passes finished in.
C26_QuiescentTabsMatchPages ==
    Quiescent =>
        /\ Len(tabs) = Len(pages)
        /\ \A k \in 1..Len(tabs) : tabs[k].page = pages[k]

\* The step is the normal return of a connectToBrowser call a reconnect timer
\* made and that went through connect, listeners, initial pass and navigation.
ReconnectEstablished ==
    \E f \in BagToSet(flights) :
        /\ f.caller = "reconnect"
        /\ f.pc = "navigate"
        /\ flights' = flights (-) SetToBag({f})

\* C27: the reconnection attempt counter goes back to zero only in the step in
\* which a reconnection attempt has established a connection, and in every such
\* step; an attempt that returns without connecting or fails does not reset it.
C27_ResetOnlyWhenConnected ==
    [][/\ (reconnectAttempts # 0 /\ reconnectAttempts' = 0) => ReconnectEstablished
       /\ (ReconnectEstablished /\ isConnecting /\ ~isConnecting') => reconnectAttempts' = 0]_vars

\* The awaits of connectToBrowser a call at pc has behind it.
Behind(pc) ==
    CASE pc = "cdp" -> {}
      [] pc = "newPage" -> {"cdp"}
      [] pc = "pages" -> {"cdp", "newPage"}
      [] pc = "sync" -> {"cdp", "newPage", "pages"}
      [] OTHER -> {"cdp", "newPage", "pages", "sync"}

\* C28: a connect attempt moves through its awaits in the order connect, page,
\* listeners, initial pass, navigation: a step never takes a call back to an
\* await it has behind it; a call past the connect has a connection, one past
\* the page step has a page, one past the initial pass has its tab list
\* emitted. isConnecting is cleared by a normal return, and session-created
\* sent, only from the last of them, the navigation.
C28_ConnectedAfterAllSteps ==
    [][/\ \A f \in BagToSet(flights) :
            /\ "cdp" \in Behind(f.pc) => opened >= 1
            /\ "newPage" \in Behind(f.pc) => Len(pages) >= 1
            /\ "sync" \in Behind(f.pc) => (Len(tabs) = Len(pages) /\ tabs # <<>>)
       /\ \A f \in BagToSet(flights), g \in BagToSet(flights') :
            (f.caller = g.caller /\ BagCardinality(flights) = 1
              /\ BagCardinality(flights') = 1) => g.pc \notin Behind(f.pc)
       /\ "session-created" \in Range(out') =>
            /\ \E f \in BagToSet(flights) : f.caller = "init" /\ f.pc = "navigate"
            /\ opened >= 1 /\ Len(pages) >= 1 /\ listening' <= opened
            /\ Len(tabs) = Len(pages)
            /\ out' = <<"tabs", "session-created">>
            /\ isConnecting /\ ~isConnecting'
       /\ (isConnecting /\ ~isConnecting' /\ "session-error" \notin Range(out')
             /\ reconnectAttempts' <= reconnectAttempts /\ notified' = notified
             /\ timers' = timers) =>
            \E f \in BagToSet(flights) : f.pc = "navigate"]_vars

\* initialize() has returned on a context that had no page and session-created
\* has been sent.
C28_Witness ==
    /\ out = <<"tabs", "session-created">>
    /\ pages = <<2>>
    /\ ~isConnecting
    /\ flights = EmptyBag

\* The switchTab call in flight (the only command in flight) is suspended at pc
\* and this step resumes it.
SwitchResumedAt(pc) ==
    /\ Len(tasks) = 1
    /\ tasks[1].kind = "switchTab"
    /\ tasks[1].pc = pc
    /\ tasks' # tasks
    /\ (tasks' # <<>> => tasks'[1].pc # pc)

\* C29: a switchTab whose bringToFront succeeds does, in this order: set the
\* active index to the target and send url-changed (no tab list yet); then,
\* with the debug URL fetched, send debug-url-changed when there is one and
\* start its pass; and send the tab list, with the target active index still
\* in place, only when that pass ends, just before it returns.
C29_SwitchTabOrder ==
    [][/\ SwitchResumedAt("front") =>
            /\ tasks' # <<>> /\ tasks'[1].pc = "debug"
            /\ activeTabIndex' = tasks[1].idx
            /\ out' = <<"url">>
            /\ tabs' = tabs
       /\ SwitchResumedAt("debug") =>
            /\ activeTabIndex = tasks[1].idx
            /\ tasks' # <<>> /\ tasks'[1].pc = "sync"
            /\ out' \in {<<>>, <<"debug">>}
            /\ tabs' = tabs
       /\ SwitchResumedAt("sync") =>
            /\ activeTabIndex = tasks[1].idx
            /\ tasks' = <<>>
            /\ out' = <<"tabs", "switchTab-ok">>
            /\ Len(tabs') >= 1]_vars

\* switchTab(tab-1) on a two-tab session whose first tab was active has
\* returned: the index is 1 and its tab list has been sent.
C29_Witness ==
    /\ Len(pages) = 2
    /\ activeTabIndex = 1
    /\ tasks = <<>>
    /\ out = <<"tabs", "switchTab-ok">>
    /\ tabs[2].active

\* C30: when the settle timer of a newTab or closeTab sends debug-url-changed,
\* the page whose live-view URL it sends is the page at the active index at
\* that moment, whatever commands ran during the delay.
C30_SettledUrlIsActivePage ==
    [][\A t \in 1..Len(tasks) :
          (tasks[t].pc = "settle" /\ tasks' = RemoveAt(tasks, t) /\ out' = <<"debug">>) =>
              tasks[t].page = PageAt(pages, activeTabIndex)]_vars

\* The pass run again is in flight, and this step completes it.
AgainCompletes == "tabs" \in Range(out') /\ \E p \in BagToSet(passes) : p.again

\* This step starts the pass run again.
AgainStarts == \E p \in BagToSet(passes') : p.again /\ p \notin BagToSet(passes)

\* C31: a pass run right after a completed pass, with no change of the pages or
\* of the active index in between, emits the tab list the first one emitted and
\* leaves the active index and currentUrl as the first one left them.
C31_SyncIdempotent ==
    [][/\ AgainStarts => activeTabIndex' = activeTabIndex
       /\ AgainCompletes =>
            /\ tabs' = tabs
            /\ activeTabIndex' = activeTabIndex
            /\ currentUrl' = currentUrl
            /\ out' = <<"tabs">>]_vars

\* The pass run again over three pages, the third one active, has one title
\* left to read.
C31_Witness ==
    /\ Len(pages) = 3
    /\ activeTabIndex = 2
    /\ tabs = Synced(pages, 2)
    /\ \E p \in BagToSet(passes) : p.again /\ Cardinality(Pending(p)) = 1

\* What a step sends when a tab command returns or a pass completes.
TabCompletions == {"tabs", "newTab-ok", "closeTab-ok", "switchTab-ok"}

\* C32: whenever a newTab, closeTab or switchTab returns and whenever a
\* synchronization pass completes, the active index is at least 0 and at most
\* max(0, number of open pages - 1).
C32_ActiveIndexInRange ==
    [][Range(out') \cap TabCompletions # {} =>
          /\ activeTabIndex' >= 0
          /\ activeTabIndex' <= Max(0, Len(pages') - 1)]_vars

\* C33: every url-changed notification carries the URL of the page at the
\* active index, and currentUrl is that URL once it is sent: a main-frame
\* navigation of a page that is not the active one sends no other URL.
C33_UrlIsActivePage ==
    []["url" \in Range(out') => currentUrl' = PageAt(pages', activeTabIndex')]_vars

\* This step calls connectOverCDP: a connectToBrowser call gets past its guards.
StartsConnect ==
    \E f \in BagToSet(flights') :
        f.pc = "cdp" /\ CopiesIn(f, flights') > CopiesIn(f, flights)

\* C34: once cleanup has been called, no step calls connectOverCDP and none
\* sends session-disconnected, whatever the disconnected event of the browser
\* cleanup closes and the reconnect timers do.
C34_NoReconnectAfterCleanup ==
    [][cleaning.calls > 0 => (~StartsConnect /\ notified' = notified)]_vars

\* The reconnection attempts scheduled (a timer armed) or in progress (a
\* connectToBrowser call made by a timer's callback).
ReconnectsPending ==
    LET byTimer == {f \in BagToSet(flights) : f.caller = "reconnect"}
    IN timers + BagCardinality([f \in byTimer |-> CopiesIn(f, flights)])

\* C35: at most one reconnection attempt is scheduled or in progress at any
\* time, whatever disconnected events arrive meanwhile.
C35_OneReconnectCycle == ReconnectsPending <= 1

\* C36: over the cleanup calls of a shutdown, one after the other or
\* overlapping, browser.close() is called at most once and stopSession at most
\* once.
C36_ClosedAndStoppedOnce == cleaning.closes <= 1 /\ cleaning.stops <= 1

\* This step ends initialize(): its connectToBrowser call returns or throws.
InitializeEnds ==
    /\ \E f \in BagToSet(flights) : f.caller = "init"
    /\ ~\E f \in BagToSet(flights') : f.caller = "init"

\* The outcome notifications the step sends: session-created and session-error.
OutcomesSent == {k \in 1..Len(out') : out'[k] \in {"session-created", "session-error"}}

\* C37: the step that ends an initialization sends exactly one outcome
\* notification, session-created or session-error, and no other step sends one.
C37_OneOutcomeNotification ==
    [][/\ InitializeEnds => Cardinality(OutcomesSent) = 1
       /\ OutcomesSent # {} => InitializeEnds]_vars

\* What the latest network call gave is retried: a rejection, a 429, a 5xx.
Retried(x) == x = NoResponse \/ x = 429 \/ x >= 500

\* This step is the end of a network call of the running fetchWithRetry.
CallEnds == fpc = "fetch" /\ Len(seen') = Len(seen) + 1

\* C38: a fetchWithRetry makes at most MAX_RETRIES network calls; a 2xx
\* response or a 4xx other than 429 ends it at once, with no sleep and no
\* further call; a rejected fetch is handled as a 5xx response is (same delay,
\* same attempt count, then the next round); and when the last attempt has
\* failed it throws the Error of the last rejection, or the generic Error when
\* no fetch was rejected.
C38_FetchWithRetry ==
    [][/\ attempt' < MAX_RETRIES
       /\ CallEnds =>
            LET x == seen'[Len(seen')] IN
            /\ attempt + 1 <= MAX_RETRIES
            /\ (x # NoResponse /\ (Ok(x) \/ NeverRetried(x))) =>
                  /\ fpc' # "sleep"
                  /\ delays' = delays \/ delays' = <<>>
                  /\ op' # op
            /\ Retried(x) =>
                  /\ fpc' = "sleep"
                  /\ delays' = Append(delays, RETRY_DELAY_MS * Pow2(attempt))
                  /\ attempt' = attempt
                  /\ op' = op
       /\ (fpc = "sleep" /\ attempt + 1 < MAX_RETRIES) =>
            (fpc' = "fetch" /\ attempt' = attempt + 1 /\ op' = op /\ seen' = seen)
       /\ (fpc = "sleep" /\ attempt + 1 = MAX_RETRIES) =>
            /\ fpc' = "idle"
            /\ seen' = seen
            /\ op = "createSession" =>
                  outcome' = Outcome("thrown",
                                     IF NoResponse \in Range(seen)
                                     THEN Err("fetch failed", {})
                                     ELSE Err("Request failed after retries", {}),
                                     "none")]_vars

\* createSession's request got a 503, a rejected fetch and a 503 again, and
\* createSession has thrown the Error of the rejection.
C38_Witness ==
    /\ seen = <<503, NoResponse, 503>>
    /\ op = "none"
    /\ outcome = Outcome("thrown", Err("fetch failed", {}), "none")

\* C39: when an auto-hide timer fires (and hides the bar and clears its list),
\* no download of the bar is in_progress.
C39_NoAutoHideWhileInProgress ==
    [][bar'.fired # bar.fired =>
         \A d \in DownloadIds : bar.downloads[d] # "in_progress"]_vars

====
